---- MODULE Spec2Model ----
(***************************************************************************)
(* Model of the SQL-to-REST adapter of src/db.py.                          *)
(*                                                                         *)
(* SQL text is modelled as a sequence of tokens, each token a sequence of  *)
(* one-character strings, so that the character classes of the adapter's   *)
(* regular expressions ([a-zA-Z_.]+, [a-zA-Z_]+, \w+) and its              *)
(* case-insensitive keyword matching are computed, not assumed.  White     *)
(* space between tokens is not represented: every regular expression of    *)
(* the adapter allows \s* or \s+ exactly where two tokens meet.            *)
(***************************************************************************)
EXTENDS Integers, Sequences, FiniteSets, TLC

(***************************************************************************)
(* Bounds of the model.                                                    *)
(***************************************************************************)
MaxConj == 2
MaxExtra == 1
MaxSet == 2
MaxId == 2
\* the most rows a result holds
MaxRows == 2
\* the most listings handed to filter_listings or to sort_listings
MaxList == 2

(***************************************************************************)
(* Python values: None, int, str.  A record per type, so that two values   *)
(* of different types compare unequal.                                     *)
(***************************************************************************)
None == [k |-> "none"]
PyInt(n) == [k |-> "int", n |-> n]
PyStr(s) == [k |-> "str", s |-> s]

DigitChars == <<"0", "1", "2", "3", "4", "5", "6", "7", "8", "9">>
LowerChars == <<"a", "b", "c", "d", "e", "f", "g", "h", "i", "j", "k", "l", "m",
                "n", "o", "p", "q", "r", "s", "t", "u", "v", "w", "x", "y", "z">>
UpperChars == <<"A", "B", "C", "D", "E", "F", "G", "H", "I", "J", "K", "L", "M",
                "N", "O", "P", "Q", "R", "S", "T", "U", "V", "W", "X", "Y", "Z">>

Range(s) == {s[i] : i \in 1..Len(s)}
Digits == Range(DigitChars)
Letters == Range(LowerChars) \cup Range(UpperChars)

\* str.upper(), one character
UpperOf == [ch \in Range(LowerChars) |->
              UpperChars[CHOOSE i \in 1..Len(LowerChars) : LowerChars[i] = ch]]
ToUpperChar(ch) == IF ch \in DOMAIN UpperOf THEN UpperOf[ch] ELSE ch

\* str.upper()
strupper(s) == [i \in 1..Len(s) |-> ToUpperChar(s[i])]

\* str(n) for n >= 0
RECURSIVE DigitsOf(_)
DigitsOf(n) ==
  IF n < 10 THEN <<DigitChars[n + 1]>>
  ELSE DigitsOf(n \div 10) \o <<DigitChars[(n % 10) + 1]>>

\* f"{v}": the text an f-string puts for a value
Format(v) ==
  CASE v.k = "none" -> <<"N", "o", "n", "e">>
    [] v.k = "int"  -> DigitsOf(v.n)
    [] v.k = "str"  -> v.s

(***************************************************************************)
(* Tokens.                                                                 *)
(***************************************************************************)
tAND == <<"A", "N", "D">>
tand == <<"a", "n", "d">>
tUPPER == <<"U", "P", "P", "E", "R">>
tBETWEEN == <<"B", "E", "T", "W", "E", "E", "N">>
tLIKE == <<"L", "I", "K", "E">>
tIS == <<"I", "S">>
tNOT == <<"N", "O", "T">>
tNULL == <<"N", "U", "L", "L">>
tIN == <<"I", "N">>
tQ == <<"?">>
tLP == <<"(">>
tRP == <<")">>
tCOMMA == <<",">>
tEQ == <<"=">>
tGE == <<">", "=">>
tLE == <<"<", "=">>
tGT == <<">">>
tLT == <<"<">>
tNE == <<"!", "=">>
tONE == <<"1">>

\* cond[i], or the empty token past the end
Tok(cond, i) == IF i \in 1..Len(cond) THEN cond[i] ELSE <<>>

\* a keyword matched under re.I
IsKw(tok, kw) == strupper(tok) = kw

\* concatenation of a sequence of tokens
RECURSIVE Concat(_)
Concat(toks) == IF toks = <<>> THEN <<>> ELSE Head(toks) \o Concat(Tail(toks))

\* ([a-zA-Z_.]+) followed by a token boundary
IsWhereCol(tok) == tok # <<>> /\ \A i \in 1..Len(tok) : tok[i] \in Letters \cup {"_", "."}

(***************************************************************************)
(* The filters dict: insertion-ordered pairs <<key, value>>; assigning an  *)
(* existing key replaces its value in place.                               *)
(***************************************************************************)
DictHas(d, key) == \E i \in 1..Len(d) : d[i][1] = key
DictGet(d, key) == d[CHOOSE i \in 1..Len(d) : d[i][1] = key][2]
DictSet(d, key, val) ==
  IF DictHas(d, key)
  THEN [i \in 1..Len(d) |-> IF d[i][1] = key THEN <<key, val>> ELSE d[i]]
  ELSE Append(d, <<key, val>>)
DictItems(d) == Range(d)

(***************************************************************************)
(* _parse_where_clause (src/db.py:245-362).                                *)
(* The compiler state is [filters, idx]: the filters dict and param_idx.   *)
(***************************************************************************)
\* next_param(): the value at param_idx and the advanced index, or None
next_param(plist, idx) ==
  IF idx < Len(plist) THEN [v |-> plist[idx + 1], idx |-> idx + 1]
  ELSE [v |-> None, idx |-> idx]

\* the separator tokens of the two splits: AND under re.I, and the comma
IsAndTok(tok) == IsKw(tok, tAND)
IsCommaTok(tok) == tok = tCOMMA
IsSepTok(kind, tok) == IF kind = "and" THEN IsAndTok(tok) ELSE IsCommaTok(tok)

\* the pieces of a token sequence between separator tokens
RECURSIVE SplitOn(_, _, _)
SplitOn(toks, kind, cur) ==
  IF toks = <<>> THEN <<cur>>
  ELSE IF IsSepTok(kind, Head(toks)) THEN <<cur>> \o SplitOn(Tail(toks), kind, <<>>)
  ELSE SplitOn(Tail(toks), kind, Append(cur, Head(toks)))

\* re.split(r'\bAND\b', where_str, flags=re.I)
SplitAnd(where_str) == SplitOn(where_str, "and", <<>>)
\* str.split(",")
SplitComma(toks) == SplitOn(toks, "comma", <<>>)

\* index of the first ")" token at or after position from, 0 when none
FirstRP(cond, from) ==
  IF \E j \in from..Len(cond) : cond[j] = tRP
  THEN CHOOSE j \in from..Len(cond) :
         cond[j] = tRP /\ \A h \in from..(j - 1) : cond[h] # tRP
  ELSE 0

\* v.strip("'\""): leading and trailing quote characters removed
RECURSIVE StripQuotes(_)
StripQuotes(s) ==
  IF s = <<>> THEN s
  ELSE IF Head(s) \in {"'", "\""} THEN StripQuotes(Tail(s))
  ELSE IF s[Len(s)] \in {"'", "\""} THEN StripQuotes(SubSeq(s, 1, Len(s) - 1))
  ELSE s

\* ','.join(vals)
RECURSIVE JoinComma(_)
JoinComma(vals) ==
  IF vals = <<>> THEN <<>>
  ELSE IF Len(vals) = 1 THEN vals[1]
  ELSE vals[1] \o <<",">> \o JoinComma(Tail(vals))

\* [v.strip().strip("'\"") for v in m.group(2).split(",")] joined with ","
InListText(group) ==
  LET parts == SplitComma(group)
      vals == [i \in 1..Len(parts) |-> StripQuotes(Concat(parts[i]))]
  IN JoinComma(vals)

\* (\w+) at the start of a token: its longest prefix of word characters
WordPrefix(tok) ==
  LET isw(i) == tok[i] \in Letters \cup Digits \cup {"_"}
      n == IF \E i \in 1..Len(tok) : ~isw(i)
           THEN (CHOOSE i \in 1..Len(tok) : ~isw(i) /\ \A h \in 1..(i - 1) : isw(h)) - 1
           ELSE Len(tok)
  IN SubSeq(tok, 1, n)

\* '([^']*)' at the start of a token: 0 when the token is no quoted literal,
\* else the index of the closing quote
QuoteEnd(tok) ==
  IF Len(tok) >= 2 /\ tok[1] = "'" /\ \E j \in 2..Len(tok) : tok[j] = "'"
  THEN CHOOSE j \in 2..Len(tok) : tok[j] = "'" /\ \A h \in 2..(j - 1) : tok[h] # "'"
  ELSE 0

pfx(op, v) == op \o <<".">> \o Format(v)
sGTE == <<"g", "t", "e">>
sLTE == <<"l", "t", "e">>
sGT == <<"g", "t">>
sLT == <<"l", "t">>
sEQ == <<"e", "q">>
sILIKE == <<"i", "l", "i", "k", "e">>
sISNULL == <<"i", "s", ".", "n", "u", "l", "l">>
sNOTISNULL == <<"n", "o", "t", ".", "i", "s", ".", "n", "u", "l", "l">>
sIN == <<"i", "n", ".", "(">>
sNOTIN == <<"n", "o", "t", ".", "i", "n", ".", "(">>
sLTEKEY == <<"_", "l", "t", "e">>

\* op_map = {">=": "gte", "<=": "lte", ">": "gt", "<": "lt"}
op_map_inclusive(tok) ==
  CASE tok = tGE -> sGTE
    [] tok = tLE -> sLTE
    [] tok = tGT -> sGTE
    [] tok = tLT -> sLTE
IsCmpTok(tok) == tok \in {tGE, tLE, tGT, tLT}
op_map(tok) ==
  CASE tok = tGE -> sGTE
    [] tok = tLE -> sLTE
    [] tok = tGT -> sGT
    [] tok = tLT -> sLT

\* the shape matchers, each a re.match (a prefix match) on one conjunct
MatchUpper(cond) ==
  LET j == FirstRP(cond, 3)
  IN /\ IsKw(Tok(cond, 1), tUPPER) /\ Tok(cond, 2) = tLP
     /\ j >= 4
     /\ Tok(cond, j + 1) = tEQ /\ IsKw(Tok(cond, j + 2), tUPPER)
     /\ Tok(cond, j + 3) = tLP /\ Tok(cond, j + 4) = tQ /\ Tok(cond, j + 5) = tRP
MatchBetween(cond) ==
  /\ IsWhereCol(Tok(cond, 1)) /\ IsKw(Tok(cond, 2), tBETWEEN) /\ Tok(cond, 3) = tQ
  /\ IsKw(Tok(cond, 4), tAND) /\ Tok(cond, 5) = tQ
MatchCmp(cond) ==
  IsWhereCol(Tok(cond, 1)) /\ IsCmpTok(Tok(cond, 2)) /\ Tok(cond, 3) = tQ
MatchLike(cond) ==
  IsWhereCol(Tok(cond, 1)) /\ IsKw(Tok(cond, 2), tLIKE) /\ Tok(cond, 3) = tQ
MatchIsNull(cond) ==
  IsWhereCol(Tok(cond, 1)) /\ IsKw(Tok(cond, 2), tIS) /\ IsKw(Tok(cond, 3), tNULL)
MatchIsNotNull(cond) ==
  /\ IsWhereCol(Tok(cond, 1)) /\ IsKw(Tok(cond, 2), tIS)
  /\ IsKw(Tok(cond, 3), tNOT) /\ IsKw(Tok(cond, 4), tNULL)
MatchIn(cond) ==
  /\ IsWhereCol(Tok(cond, 1)) /\ IsKw(Tok(cond, 2), tIN) /\ Tok(cond, 3) = tLP
  /\ FirstRP(cond, 4) >= 5
MatchNotIn(cond) ==
  /\ IsWhereCol(Tok(cond, 1)) /\ IsKw(Tok(cond, 2), tNOT) /\ IsKw(Tok(cond, 3), tIN)
  /\ Tok(cond, 4) = tLP /\ FirstRP(cond, 5) >= 6
MatchEqParam(cond) ==
  IsWhereCol(Tok(cond, 1)) /\ Tok(cond, 2) = tEQ /\ Tok(cond, 3) = tQ
MatchEqQuoted(cond) ==
  IsWhereCol(Tok(cond, 1)) /\ Tok(cond, 2) = tEQ /\ QuoteEnd(Tok(cond, 3)) > 0
MatchEqWord(cond) ==
  IsWhereCol(Tok(cond, 1)) /\ Tok(cond, 2) = tEQ /\ WordPrefix(Tok(cond, 3)) # <<>>

\* one iteration of the loop over the conjuncts (src/db.py:269-359)
CompileCond(cond, st, plist) ==
  LET np == next_param(plist, st.idx)
      np2 == next_param(plist, np.idx)
      col == cond[1]
  IN
  IF cond = <<>> \/ cond = <<tONE, tEQ, tONE>> THEN st
  ELSE IF MatchUpper(cond)
    THEN [filters |-> DictSet(st.filters, Concat(SubSeq(cond, 3, FirstRP(cond, 3) - 1)),
                              pfx(sILIKE, np.v)),
          idx |-> np.idx]
  ELSE IF MatchBetween(cond)
    THEN [filters |-> DictSet(DictSet(st.filters, col, pfx(sGTE, np.v)),
                              col \o sLTEKEY, pfx(sLTE, np2.v)),
          idx |-> np2.idx]
  ELSE IF MatchCmp(cond)
    THEN [filters |-> DictSet(st.filters, col, pfx(op_map(cond[2]), np.v)), idx |-> np.idx]
  ELSE IF MatchLike(cond)
    THEN [filters |-> DictSet(st.filters, col, pfx(sILIKE, np.v)), idx |-> np.idx]
  ELSE IF MatchIsNull(cond)
    THEN [filters |-> DictSet(st.filters, col, sISNULL), idx |-> st.idx]
  ELSE IF MatchIsNotNull(cond)
    THEN [filters |-> DictSet(st.filters, col, sNOTISNULL), idx |-> st.idx]
  ELSE IF MatchIn(cond)
    THEN [filters |-> DictSet(st.filters, col,
                              sIN \o InListText(SubSeq(cond, 4, FirstRP(cond, 4) - 1)) \o <<")">>),
          idx |-> st.idx]
  ELSE IF MatchNotIn(cond)
    THEN [filters |-> DictSet(st.filters, col,
                              sNOTIN \o InListText(SubSeq(cond, 5, FirstRP(cond, 5) - 1)) \o <<")">>),
          idx |-> st.idx]
  ELSE IF MatchEqParam(cond)
    THEN [filters |-> DictSet(st.filters, col, pfx(sEQ, np.v)), idx |-> np.idx]
  ELSE IF MatchEqQuoted(cond)
    THEN [filters |-> DictSet(st.filters, col,
                              sEQ \o <<".">> \o SubSeq(cond[3], 2, QuoteEnd(cond[3]) - 1)),
          idx |-> st.idx]
  ELSE IF MatchEqWord(cond)
    THEN IF strupper(WordPrefix(cond[3])) # tNULL
         THEN [filters |-> DictSet(st.filters, col, sEQ \o <<".">> \o WordPrefix(cond[3])),
               idx |-> st.idx]
         ELSE st
  ELSE st

RECURSIVE CompileConds(_, _, _)
CompileConds(conds, st, plist) ==
  IF conds = <<>> THEN st
  ELSE CompileConds(Tail(conds), CompileCond(Head(conds), st, plist), plist)

\* _parse_where_clause(where_str, params) -> (filters, remaining_params)
_parse_where_clause(where_str, params) ==
  IF where_str = <<>> THEN [filters |-> <<>>, remaining |-> params]
  ELSE LET st == CompileConds(SplitAnd(where_str), [filters |-> <<>>, idx |-> 0], params)
       IN [filters |-> st.filters,
           remaining |-> SubSeq(params, st.idx + 1, Len(params))]

(***************************************************************************)
(* Statement parsers (src/db.py:224-227, 444-483).                         *)
(***************************************************************************)
tUPDATE == <<"U", "P", "D", "A", "T", "E">>
tSET == <<"S", "E", "T">>
tWHERE == <<"W", "H", "E", "R", "E">>
tFROM == <<"F", "R", "O", "M">>
tINTO == <<"I", "N", "T", "O">>
tTABLE == <<"T", "A", "B", "L", "E">>

\* a regular expression that starts with a keyword and is used with
\* re.search finds the keyword at the end of a token as well
EndsWithKw(tok, kw) ==
  Len(tok) >= Len(kw) /\ strupper(SubSeq(tok, Len(tok) - Len(kw) + 1, Len(tok))) = kw

\* index of the first token at or after from that satisfies P, 0 when none
FirstTok(toks, from, P(_)) ==
  IF \E j \in from..Len(toks) : P(toks[j])
  THEN CHOOSE j \in from..Len(toks) : P(toks[j]) /\ \A h \in from..(j - 1) : ~P(toks[h])
  ELSE 0

\* str.lower()
LowerOf == [ch \in Range(UpperChars) |->
              LowerChars[CHOOSE i \in 1..Len(UpperChars) : UpperChars[i] = ch]]
ToLowerChar(ch) == IF ch \in DOMAIN LowerOf THEN LowerOf[ch] ELSE ch
strlower(s) == [i \in 1..Len(s) |-> ToLowerChar(s[i])]

\* [a-zA-Z_][a-zA-Z0-9_]* at the start of a token
IdentPrefix(tok) ==
  IF tok = <<>> \/ tok[1] \notin Letters \cup {"_"} THEN <<>> ELSE WordPrefix(tok)

\* _extract_table(sql): the identifier after the first FROM, INTO, UPDATE or
\* TABLE that has one, in lower case; None when there is none
_extract_table(sql) ==
  LET hit(i) == /\ \E kw \in {tFROM, tINTO, tUPDATE, tTABLE} : EndsWithKw(sql[i], kw)
                /\ IdentPrefix(Tok(sql, i + 1)) # <<>>
  IN IF \E i \in 1..Len(sql) : hit(i)
     THEN PyStr(strlower(IdentPrefix(sql[(CHOOSE i \in 1..Len(sql) :
                                           hit(i) /\ \A h \in 1..(i - 1) : ~hit(h)) + 1])))
     ELSE None

IsSetTok(tok) == EndsWithKw(tok, tSET)
IsWhereTok(tok) == IsKw(tok, tWHERE)
EndsWithWhere(tok) == EndsWithKw(tok, tWHERE)

\* re.split(r',\s*(?=[a-zA-Z_])', set_str): split at the commas that a letter
\* or an underscore follows
RECURSIVE SplitSet(_, _)
SplitSet(toks, cur) ==
  IF toks = <<>> THEN <<cur>>
  ELSE IF /\ Head(toks) = tCOMMA
          /\ Len(toks) >= 2 /\ toks[2] # <<>> /\ toks[2][1] \in Letters \cup {"_"}
       THEN <<cur>> \o SplitSet(Tail(toks), <<>>)
       ELSE SplitSet(Tail(toks), Append(cur, Head(toks)))

\* re.match(r'([a-zA-Z_]+)\s*=\s*\?', part)
IsSetCol(tok) == tok # <<>> /\ \A i \in 1..Len(tok) : tok[i] \in Letters \cup {"_"}
MatchSetPart(part) ==
  IsSetCol(Tok(part, 1)) /\ Tok(part, 2) = tEQ /\ Tok(part, 3) = tQ

\* the loop over set_parts: st is [updates, used]
RECURSIVE SetLoop(_, _, _)
SetLoop(parts, st, params) ==
  IF parts = <<>> THEN st
  ELSE LET part == Head(parts)
           nxt == IF MatchSetPart(part) /\ st.used < Len(params)
                  THEN [updates |-> DictSet(st.updates, part[1], params[st.used + 1]),
                        used |-> st.used + 1]
                  ELSE st
       IN SetLoop(Tail(parts), nxt, params)

\* _parse_update(sql, params) -> (table, updates, filters)
_parse_update(sql, params) ==
  LET s == FirstTok(sql, 1, IsSetTok)
      w == IF s = 0 THEN 0 ELSE FirstTok(sql, s + 1, IsWhereTok)
      set_str == IF s = 0 THEN <<>>
                 ELSE IF w = 0 \/ w = Len(sql) THEN SubSeq(sql, s + 1, Len(sql))
                 ELSE SubSeq(sql, s + 1, w - 1)
      st == IF s = 0 THEN [updates |-> <<>>, used |-> 0]
            ELSE SetLoop(SplitSet(set_str, <<>>), [updates |-> <<>>, used |-> 0], params)
      ww == FirstTok(sql, 1, EndsWithWhere)
      filters == IF ww = 0 \/ ww = Len(sql) THEN <<>>
                 ELSE _parse_where_clause(SubSeq(sql, ww + 1, Len(sql)),
                                          SubSeq(params, st.used + 1, Len(params))).filters
  IN [table |-> _extract_table(sql), updates |-> st.updates, filters |-> filters]

\* _parse_where(sql, params) -> (table, filters), for DELETE and COUNT
_parse_where_upper_only(sql, params) ==
  LET ww == FirstTok(sql, 1, LAMBDA t : t = tWHERE)
  IN [table |-> _extract_table(sql),
      filters |-> IF ww = 0 \/ ww = Len(sql) THEN <<>>
                  ELSE _parse_where_clause(SubSeq(sql, ww + 1, Len(sql)), params).filters]
_parse_where(sql, params) ==
  LET ww == FirstTok(sql, 1, EndsWithWhere)
  IN [table |-> _extract_table(sql),
      filters |-> IF ww = 0 \/ ww = Len(sql) THEN <<>>
                  ELSE _parse_where_clause(SubSeq(sql, ww + 1, Len(sql)), params).filters]

(***************************************************************************)
(* _parse_insert and _parse_select (src/db.py:365-441).                    *)
(***************************************************************************)
tSELECT == <<"S", "E", "L", "E", "C", "T">>
tINSERT == <<"I", "N", "S", "E", "R", "T">>
tVALUES == <<"V", "A", "L", "U", "E", "S">>
tDELETE == <<"D", "E", "L", "E", "T", "E">>
tORDER == <<"O", "R", "D", "E", "R">>
tBY == <<"B", "Y">>
tLIMIT == <<"L", "I", "M", "I", "T">>
tDESC == <<"D", "E", "S", "C">>
tASC == <<"A", "S", "C">>
tAS == <<"A", "S">>
tCOUNT == <<"C", "O", "U", "N", "T">>
tSTAR == <<"*">>
sSTAR == <<"*">>

IsWord(tok) == tok # <<>> /\ WordPrefix(tok) = tok
IsNumber(tok) == tok # <<>> /\ \A i \in 1..Len(tok) : tok[i] \in Digits

\* the tokens of a list joined by single spaces
RECURSIVE JoinSpace(_)
JoinSpace(toks) ==
  IF toks = <<>> THEN <<>>
  ELSE IF Len(toks) = 1 THEN toks[1]
  ELSE toks[1] \o <<" ">> \o JoinSpace(Tail(toks))

\* the zip of the column list with params: record[col] = params[i] while i < len(params)
ZipRecord_reversed(cols, params, i, record) ==
  [j \in 1..(IF Len(cols) < Len(params) THEN Len(cols) ELSE Len(params)) |->
     <<cols[j], params[Len(params) + 1 - j]>>]
RECURSIVE ZipRecord(_, _, _, _)
ZipRecord(cols, params, i, record) ==
  IF i > Len(cols) THEN record
  ELSE ZipRecord(cols, params, i + 1,
                 IF i <= Len(params) THEN DictSet(record, cols[i], params[i]) ELSE record)

\* _parse_insert(sql, params) -> (table, record)
_parse_insert(sql, params) ==
  LET hit(i) == /\ IsKw(sql[i], tINSERT) /\ IsKw(Tok(sql, i + 1), tINTO)
                /\ IsWord(Tok(sql, i + 2)) /\ Tok(sql, i + 3) = tLP
                /\ FirstRP(sql, i + 4) >= i + 5
      found == \E i \in 1..Len(sql) : hit(i)
      at == CHOOSE i \in 1..Len(sql) : hit(i) /\ \A h \in 1..(i - 1) : ~hit(h)
      parts == SplitComma(SubSeq(sql, at + 4, FirstRP(sql, at + 4) - 1))
      cols == [i \in 1..Len(parts) |-> JoinSpace(parts[i])]
  IN [table |-> _extract_table(sql),
      record |-> IF found THEN ZipRecord(cols, params, 1, <<>>) ELSE <<>>]

\* re.sub(r'^[a-z]\.', '', col): a one-letter lower-case table alias removed
StripAlias(col) ==
  IF Len(col) >= 2 /\ col[1] \in Range(LowerChars) /\ col[2] = "."
  THEN SubSeq(col, 3, Len(col)) ELSE col

\* re.sub(r'\s+AS\s+\w+', '', col, flags=re.I): each "AS alias" removed
RECURSIVE DropAs(_)
DropAs(toks) ==
  IF Len(toks) < 3 THEN toks
  ELSE IF IsKw(toks[2], tAS) /\ WordPrefix(toks[3]) # <<>>
       THEN DropAs(<<toks[1] \o SubSeq(toks[3], Len(WordPrefix(toks[3])) + 1, Len(toks[3]))>>
                     \o SubSeq(toks, 4, Len(toks)))
       ELSE <<toks[1]>> \o DropAs(Tail(toks))

\* one entry of the column list, cleaned (src/db.py:379-385)
CleanCol(item) ==
  LET text == JoinSpace(item)
      starred == IF Len(text) = 3 /\ text[1] \in Range(LowerChars) /\ text[2] = "."
                      /\ text[3] = "*"
                 THEN <<sSTAR>> ELSE item
  IN JoinSpace(DropAs(<<StripAlias(starred[1])>> \o Tail(starred)))

HasChar(toks, ch) == \E i \in 1..Len(toks) : \E j \in 1..Len(toks[i]) : toks[i][j] = ch
\* needle in text
Contains(text, needle) ==
  \E i \in 1..(Len(text) - Len(needle) + 1) : SubSeq(text, i, i + Len(needle) - 1) = needle

\* the cleaned entries that are neither empty nor "*"
RECURSIVE KeepCols(_)
KeepCols(seq) ==
  IF seq = <<>> THEN <<>>
  ELSE (IF Head(seq) # <<>> /\ Head(seq) # sSTAR THEN <<Head(seq)>> ELSE <<>>)
         \o KeepCols(Tail(seq))

\* the select_cols of a SELECT (src/db.py:370-389)
SelectCols(sql) ==
  LET f == FirstTok(sql, 2, LAMBDA t : IsKw(t, tFROM))
      matched == sql # <<>> /\ IsKw(sql[1], tSELECT) /\ f >= 3 /\ f < Len(sql)
      cols == SubSeq(sql, 2, f - 1)
      text == JoinSpace(cols)
      items == SplitComma(cols)
      cleaned == [i \in 1..Len(items) |-> IF items[i] = <<>> THEN <<>> ELSE CleanCol(items[i])]
      clean_cols == KeepCols(cleaned)
  IN IF ~matched THEN sSTAR
     ELSE IF text = sSTAR \/ Contains(text, <<".", "*">>)
             \/ Contains(strupper(text), tCOUNT)
       THEN sSTAR
     ELSE IF clean_cols # <<>> /\ ~HasChar(cols, "*") THEN JoinComma(clean_cols)
     ELSE sSTAR

\* index of the first ORDER token that BY follows, from position from; 0 when none
FirstOrderBy(sql, from) ==
  LET hit(i) == EndsWithKw(sql[i], tORDER) /\ IsKw(Tok(sql, i + 1), tBY)
  IN IF \E i \in from..Len(sql) : hit(i)
     THEN CHOOSE i \in from..Len(sql) : hit(i) /\ \A h \in from..(i - 1) : ~hit(h)
     ELSE 0
IsLimitTok(tok) == IsKw(tok, tLIMIT)

\* the smallest of two positions, 0 meaning none
MinPos(a, b) == IF a = 0 THEN b ELSE IF b = 0 THEN a ELSE IF a < b THEN a ELSE b

\* the span between WHERE and ORDER BY, LIMIT or the end (src/db.py:392)
WhereSpan(sql) ==
  LET w == FirstTok(sql, 1, IsWhereTok)
      e == IF w = 0 THEN 0
           ELSE MinPos(LET o == FirstOrderBy(sql, w + 1)
                       IN IF o # 0 /\ IsKw(sql[o], tORDER) THEN o ELSE 0,
                       FirstTok(sql, w + 1, IsLimitTok))
  IN IF w = 0 THEN [found |-> FALSE, text |-> <<>>]
     ELSE [found |-> TRUE,
           text |-> SubSeq(sql, w + 1, IF e = 0 THEN Len(sql) ELSE e - 1)]

\* one ORDER BY entry as a backend order token (src/db.py:405-414)
OrderPart(part) ==
  LET d == FirstTok(part, 1, LAMBDA t : IsKw(t, tDESC))
      a == FirstTok(part, 2, LAMBDA t : IsKw(t, tASC))
  IN IF d # 0
     THEN StripAlias(JoinSpace(IF d >= 2 THEN SubSeq(part, 1, d - 1) ELSE part))
            \o <<".", "d", "e", "s", "c">>
     ELSE StripAlias(JoinSpace(IF a # 0 THEN SubSeq(part, 1, a - 1) ELSE part))
            \o <<".", "a", "s", "c">>

\* the order of a SELECT, None without ORDER BY (src/db.py:399-415)
OrderOf(sql) ==
  LET o == FirstOrderBy(sql, 1)
      l == IF o = 0 THEN 0 ELSE FirstTok(sql, o + 2, IsLimitTok)
      span == SubSeq(sql, o + 2, IF l = 0 THEN Len(sql) ELSE l - 1)
      parts == SplitComma(span)
  IN IF o = 0 \/ o + 1 >= Len(sql) THEN None
     ELSE PyStr(JoinComma([i \in 1..Len(parts) |-> OrderPart(parts[i])]))

\* int(text) of a digit string
RECURSIVE IntOf(_)
IntOf(text) ==
  IF text = <<>> THEN 0
  ELSE 10 * IntOf(SubSeq(text, 1, Len(text) - 1))
         + (CHOOSE d \in 0..9 : DigitChars[d + 1] = text[Len(text)])

\* (\d+) at the start of a token
DigitPrefix(tok) ==
  LET n == IF \E i \in 1..Len(tok) : tok[i] \notin Digits
           THEN (CHOOSE i \in 1..Len(tok) :
                   tok[i] \notin Digits /\ \A h \in 1..(i - 1) : tok[h] \in Digits) - 1
           ELSE Len(tok)
  IN SubSeq(tok, 1, n)

\* the limit of a SELECT, None without LIMIT n (src/db.py:418-421)
LimitOf(sql) ==
  LET hit(i) == EndsWithKw(sql[i], tLIMIT) /\ DigitPrefix(Tok(sql, i + 1)) # <<>>
  IN IF \E i \in 1..Len(sql) : hit(i)
     THEN PyInt(IntOf(DigitPrefix(sql[(CHOOSE i \in 1..Len(sql) :
                                         hit(i) /\ \A h \in 1..(i - 1) : ~hit(h)) + 1])))
     ELSE None

\* _parse_select(sql, params) -> (table, select_cols, filters, order, limit)
_parse_select(sql, params) ==
  LET span == WhereSpan(sql)
  IN [table |-> _extract_table(sql),
      select_cols |-> SelectCols(sql),
      filters |-> IF span.found THEN _parse_where_clause(span.text, params).filters
                  ELSE <<>>,
      order |-> OrderOf(sql),
      limit |-> LimitOf(sql)]

(***************************************************************************)
(* Rows, results and the REST helpers (src/db.py:45-85, 165-218).          *)
(* A row is a dict; a result is the list of rows of a SupabaseResult.      *)
(* An HTTP response is [status, list, body]: status 0 stands for a raised  *)
(* exception, list says whether the JSON body is an array, body is the     *)
(* array of rows or the single object.                                     *)
(***************************************************************************)
kId == <<"i", "d">>
kName == <<"n", "a", "m", "e">>
kSelect == <<"s", "e", "l", "e", "c", "t">>
kOrder == <<"o", "r", "d", "e", "r">>
kLimit == <<"l", "i", "m", "i", "t">>
kLastRowid == <<"l", "a", "s", "t", "_", "i", "n", "s", "e", "r", "t", "_", "r", "o", "w",
                "i", "d", "(", ")">>
kCount == <<"C", "O", "U", "N", "T", "(", "*", ")">>

\* dict.get(key)
RowGet(row, key) == IF DictHas(row, key) THEN DictGet(row, key) ELSE None

\* SupabaseResult.fetchone / fetchall
fetchone(rows) == IF rows = <<>> THEN None ELSE rows[1]
fetchall(rows) == rows

\* the filters of a request as query parameters, added to params in order
RECURSIVE AddFilters(_, _)
AddFilters(params, filters) ==
  IF filters = <<>> THEN params
  ELSE AddFilters(DictSet(params, filters[1][1], PyStr(filters[1][2])), Tail(filters))

Truthy(v) ==
  CASE v.k = "none" -> FALSE
    [] v.k = "int"  -> v.n # 0
    [] v.k = "str"  -> v.s # <<>>

\* _supa_get: the request it sends
_supa_get_request(table, filters, select, order, limit) ==
  LET p0 == <<<<kSelect, PyStr(IF select = <<>> THEN sSTAR ELSE select)>>>>
      p1 == AddFilters(p0, filters)
      p2 == IF Truthy(order) THEN DictSet(p1, kOrder, order) ELSE p1
      p3 == IF Truthy(limit) THEN DictSet(p2, kLimit, limit) ELSE p2
  IN [method |-> "GET", table |-> table, params |-> p3, json |-> <<>>]
\* _supa_get: what it returns for a response
\* r.json(): a response holds its body as a list; a JSON object is held as
\* the one element of it
json(resp) == IF resp.list THEN resp.body ELSE resp.body[1]
_supa_get_unchecked(resp) == json(resp)
_supa_get(resp) == IF resp.status = 200 THEN json(resp) ELSE <<>>

\* _supa_insert
_supa_insert_request(table, record) ==
  [method |-> "POST", table |-> table, params |-> <<>>, json |-> record]
_supa_insert_unchecked(resp) ==
  IF resp.list THEN json(resp) ELSE <<json(resp)>>
_supa_insert(resp) ==
  IF resp.status \in {200, 201}
  THEN IF resp.list THEN json(resp) ELSE <<json(resp)>>
  ELSE <<>>

\* _supa_update and _supa_delete return nothing
_supa_update_request(table, updates, filters) ==
  [method |-> "PATCH", table |-> table, params |-> AddFilters(<<>>, filters), json |-> updates]
_supa_delete_request(table, filters) ==
  [method |-> "DELETE", table |-> table, params |-> AddFilters(<<>>, filters), json |-> <<>>]

(***************************************************************************)
(* SupabaseConn.execute (src/db.py:94-148).                                *)
(***************************************************************************)
tCREATE == <<"C", "R", "E", "A", "T", "E">>
tINDEX == <<"I", "N", "D", "E", "X">>
tALTER == <<"A", "L", "T", "E", "R">>
tDROP == <<"D", "R", "O", "P">>
tPRAGMA == <<"P", "R", "A", "G", "M", "A">>
tLASTROWID == <<"L", "A", "S", "T", "_", "I", "N", "S", "E", "R", "T", "_", "R", "O", "W",
                "I", "D">>

HasPrefix(tok, kw) == Len(tok) >= Len(kw) /\ strupper(SubSeq(tok, 1, Len(kw))) = kw
\* upper.startswith("KW") and upper.startswith("KW1 KW2")
StartsWith(sql, kw) == HasPrefix(Tok(sql, 1), kw)
StartsWith2(sql, kw1, kw2) == IsKw(Tok(sql, 1), kw1) /\ HasPrefix(Tok(sql, 2), kw2)

\* the DDL test of execute (src/db.py:103-107)
IsIgnoredDDL_create_only(sql) ==
  StartsWith2(sql, tCREATE, tTABLE) \/ StartsWith2(sql, tCREATE, tINDEX)
IsIgnoredDDL(sql) ==
  \/ StartsWith2(sql, tCREATE, tTABLE) \/ StartsWith2(sql, tCREATE, tINDEX)
  \/ StartsWith2(sql, tALTER, tTABLE) \/ StartsWith2(sql, tDROP, tTABLE)
  \/ StartsWith(sql, tPRAGMA)

\* the branch of execute a statement takes, in the order execute tests them
Classify(sql) ==
  IF IsIgnoredDDL(sql) THEN "ddl"
  ELSE IF \E i \in 1..Len(sql) : Contains(strupper(sql[i]), tLASTROWID) THEN "lastid"
  ELSE IF /\ IsKw(Tok(sql, 1), tSELECT) /\ IsKw(Tok(sql, 2), tCOUNT) /\ Tok(sql, 3) = tLP
          /\ Tok(sql, 4) = tSTAR /\ HasPrefix(Tok(sql, 5), tRP)
    THEN "count"
  ELSE IF StartsWith(sql, tSELECT) THEN "select"
  ELSE IF StartsWith2(sql, tINSERT, tINTO) THEN "insert"
  ELSE IF StartsWith(sql, tUPDATE) THEN "update"
  ELSE IF StartsWith2(sql, tDELETE, tFROM) THEN "delete"
  ELSE "other"

LocalKinds == {"ddl", "lastid", "other"}
HttpKinds == {"count", "select", "insert", "update", "delete"}

\* the HTTP request execute sends for a statement of an HTTP kind: the parse
\* result is a value handed on to the _supa_* function
RequestOf(sql, params) ==
  LET kind == Classify(sql)
      Only(S) == CHOOSE r \in S : TRUE
  IN CASE kind = "count" ->
            Only({_supa_get_request(p.table, p.filters, kId, None, None) :
                    p \in {_parse_where(sql, params)}})
       [] kind = "select" ->
            Only({_supa_get_request(p.table, p.filters, p.select_cols, p.order, p.limit) :
                    p \in {_parse_select(sql, params)}})
       [] kind = "insert" ->
            Only({_supa_insert_request(p.table, p.record) :
                    p \in {_parse_insert(sql, params)}})
       [] kind = "update" ->
            Only({_supa_update_request(p.table, p.updates, p.filters) :
                    p \in {_parse_update(sql, params)}})
       [] kind = "delete" ->
            Only({_supa_delete_request(p.table, p.filters) :
                    p \in {_parse_where(sql, params)}})

\* self._last_insert_id after the INSERT branch (src/db.py:130-134)
AfterInsert_newest(old, result) ==
  IF result # <<>> THEN RowGet(result[Len(result)], kId) ELSE old
AfterInsert_once(old, result) ==
  IF result # <<>> /\ old = None THEN RowGet(result[1], kId) ELSE old
AfterInsert(old, result) ==
  IF result # <<>> THEN RowGet(result[1], kId) ELSE old

\* the row of SELECT last_insert_rowid() (src/db.py:111-112)
LastIdRows(lid) == <<<<<<kLastRowid, lid>>>>>>

\* execute without HTTP: the rows of the result
ExecuteLocalRows(kind, lid) == IF kind = "lastid" THEN LastIdRows(lid) ELSE <<>>

\* execute after the HTTP response: the rows of the result
ExecuteRows(kind, resp) ==
  CASE kind = "count"  -> <<<<<<kCount, PyInt(Len(_supa_get(resp)))>>>>>>
    [] kind = "select" -> _supa_get(resp)
    [] kind = "insert" -> _supa_insert(resp)
    [] kind = "update" -> <<>>
    [] kind = "delete" -> <<>>

\* self._last_insert_id = ..., on the connection that executes
StoreShared(lid, k, v) == [c \in DOMAIN lid |-> v]
Store(lid, k, v) == [lid EXCEPT ![k] = v]

\* the last-insert ids after execute's HTTP branches: only the INSERT branch
\* assigns
ExecuteStore_any(lid, k, kind, resp) ==
  Store(lid, k, AfterInsert(lid[k], IF kind = "insert" THEN _supa_insert(resp)
                                    ELSE _supa_get(resp)))
ExecuteStore(lid, k, kind, resp) ==
  IF kind = "insert"
  THEN Store(lid, k, AfterInsert(lid[k], _supa_insert(resp)))
  ELSE lid

\* SupabaseConn.__init__ / get_conn()
get_conn == None

(***************************************************************************)
(* Inputs of the predicate compiler: a WHERE clause is a list of           *)
(* conjuncts, each a shape applied to a column, joined by AND; and a       *)
(* positional-parameter list.                                              *)
(***************************************************************************)
colA == <<"a">>
colB == <<"s", "t", "a", "g", "e">>
colC2 == <<"c", "2">>
tlike == <<"l", "i", "k", "e">>
tLitNew == <<"'", "n", "e", "w", "'">>
tBare == <<"o", "p", "e", "n">>

AllShapes == {"eq", "ge", "le", "gt", "lt", "like", "upper", "between", "in", "inq",
              "notin", "isnull", "notnull", "ne", "nelit", "eqlit", "eqword", "eqnull",
              "true"}
Conjuncts ==
  [shape : AllShapes, col : {colA}]
    \cup [shape : {"eq", "le"}, col : {colB}]
    \cup [shape : {"eq"}, col : {colC2}]

\* the SQL text of a conjunct
Render(c) ==
  CASE c.shape = "eq"      -> <<c.col, tEQ, tQ>>
    [] c.shape = "ge"      -> <<c.col, tGE, tQ>>
    [] c.shape = "le"      -> <<c.col, tLE, tQ>>
    [] c.shape = "gt"      -> <<c.col, tGT, tQ>>
    [] c.shape = "lt"      -> <<c.col, tLT, tQ>>
    [] c.shape = "like"    -> <<c.col, tlike, tQ>>
    [] c.shape = "upper"   -> <<tUPPER, tLP, c.col, tRP, tEQ, tUPPER, tLP, tQ, tRP>>
    [] c.shape = "between" -> <<c.col, tBETWEEN, tQ, tAND, tQ>>
    [] c.shape = "in"      -> <<c.col, tIN, tLP, tONE, tCOMMA, tLitNew, tRP>>
    [] c.shape = "inq"     -> <<c.col, tIN, tLP, tQ, tCOMMA, tQ, tRP>>
    [] c.shape = "notin"   -> <<c.col, tNOT, tIN, tLP, tONE, tCOMMA, tLitNew, tRP>>
    [] c.shape = "isnull"  -> <<c.col, tIS, tNULL>>
    [] c.shape = "notnull" -> <<c.col, tIS, tNOT, tNULL>>
    [] c.shape = "ne"      -> <<c.col, tNE, tQ>>
    [] c.shape = "nelit"   -> <<c.col, tNE, tLitNew>>
    [] c.shape = "eqlit"   -> <<c.col, tEQ, tLitNew>>
    [] c.shape = "eqword"  -> <<c.col, tEQ, tBare>>
    [] c.shape = "eqnull"  -> <<c.col, tEQ, tNULL>>
    [] c.shape = "true"    -> <<tONE, tEQ, tONE>>

\* the number of ? placeholders in a token sequence
RECURSIVE CountQ(_)
CountQ(toks) ==
  IF toks = <<>> THEN 0
  ELSE (IF Head(toks) = tQ THEN 1 ELSE 0) + CountQ(Tail(toks))

\* the conjuncts joined by AND, written in upper and in lower case in turn
RECURSIVE JoinAnd(_, _)
JoinAnd(conjs, n) ==
  IF conjs = <<>> THEN <<>>
  ELSE IF Len(conjs) = 1 THEN Render(conjs[1])
  ELSE Render(conjs[1]) \o <<IF n % 2 = 1 THEN tAND ELSE tand>> \o JoinAnd(Tail(conjs), n + 1)
WhereText(conjs) == JoinAnd(conjs, 1)

\* the i-th positional parameter: an int, a str or None in turn, starting at
\* rotation r, and different at different positions
ParamAt(i, r) ==
  CASE (i + r) % 3 = 0 -> PyInt(30 + i)
    [] (i + r) % 3 = 1 -> PyStr(<<"%", "t", DigitChars[(i % 10) + 1]>>)
    [] (i + r) % 3 = 2 -> None
ParamList(m, r) == [i \in 1..m |-> ParamAt(i, r)]
Rotations == {0, 1, 2}

ConjLists == UNION {[1..n -> Conjuncts] : n \in 0..MaxConj}

(***************************************************************************)
(* State.                                                                  *)
(***************************************************************************)
VARIABLES
  w_conjs,    \* the conjuncts of the WHERE clause handed to the compiler
  w_where,    \* where_str, the clause text
  w_params,   \* params
  w_out       \* what _parse_where_clause returned, once it has

VARIABLES
  u_cols,     \* the columns assigned in the SET clause of the UPDATE
  u_conjs,    \* the conjuncts of its WHERE clause
  u_sql,      \* the statement text
  u_params,   \* params
  u_out       \* what _parse_update returned, once it has

VARIABLES
  last_insert_id,  \* SupabaseConn._last_insert_id of each Connection
  parsed,          \* what execute's parsing makes of each statement text
  ret,             \* the call of execute made in the step just taken, and its result
  origin,          \* the ids the backend has generated: who inserted, on which Connection
  lastOk           \* each Connection: the id echoed first by its latest accepted INSERT

VARIABLES
  x_sql,      \* the statement handed to execute on a Connection of its own
  x_lid,      \* that Connection's _last_insert_id before the call
  x_resp,     \* the backend's answer to the request of the call
  x_out       \* what the call did and returned, once it has

VARIABLES
  r_rows,     \* the list SupabaseResult._rows refers to
  r_built,    \* the rows the result was built with
  r_held,     \* the caller holds the list that fetchall returned
  r_obs       \* what the last call on the result returned

VARIABLES
  a_row,      \* a SupabaseRow
  a_name,     \* the name looked up on it
  a_out       \* what the lookup gave, once it was made

VARIABLES
  f_listings,      \* the listings handed to filter_listings
  f_min_year,      \* its min_year
  f_exclude_sold,  \* its exclude_sold
  f_out            \* what it returned, once it has

VARIABLES
  s_listings,      \* the listings handed to sort_listings
  s_out            \* what it returned, once it has

wvars == <<w_conjs, w_where, w_params, w_out>>
fvars == <<f_listings, f_min_year, f_exclude_sold, f_out>>
svars == <<s_listings, s_out>>
rvars == <<r_rows, r_built, r_held, r_obs>>
avars == <<a_row, a_name, a_out>>
xvars == <<x_sql, x_lid, x_resp, x_out>>
uvars == <<u_cols, u_conjs, u_sql, u_params, u_out>>
cvars == <<last_insert_id, parsed, ret, origin, lastOk>>
vars == <<w_conjs, w_where, w_params, w_out, u_cols, u_conjs, u_sql, u_params, u_out,
          last_insert_id, parsed, ret, origin, lastOk, x_sql, x_lid, x_resp, x_out,
          r_rows, r_built, r_held, r_obs, a_row, a_name, a_out,
          f_listings, f_min_year, f_exclude_sold, f_out, s_listings, s_out>>

NotCalled == [done |-> FALSE, filters |-> <<>>, remaining |-> <<>>]

WhereIdle ==
  /\ w_conjs = <<>> /\ w_where = <<>> /\ w_params = <<>> /\ w_out = NotCalled

WhereInputs ==
  /\ w_conjs \in ConjLists
  /\ w_where = WhereText(w_conjs)
  /\ \E e \in 0..MaxExtra, r \in Rotations :
       w_params = ParamList(CountQ(w_where) + e, r)
  /\ w_out = NotCalled

\* the caller of _parse_where_clause
WhereCall ==
  /\ ~w_out.done
  /\ w_out' = [done |-> TRUE] @@ _parse_where_clause(w_where, w_params)
  /\ UNCHANGED <<w_conjs, w_where, w_params>>
  /\ UNCHANGED <<uvars, cvars, xvars, rvars, avars, fvars, svars>>

(***************************************************************************)
(* Inputs of the UPDATE extractor: UPDATE t SET a1 = ?, ..., am = ? with   *)
(* an optional WHERE clause of one conjunct.                               *)
(***************************************************************************)
colXY == <<"x", "_", "y">>
tblT == <<"c", "r", "m", "_", "l", "e", "a", "d", "s">>
SetCols == {colA, colXY, colC2}
SetLists == UNION {[1..n -> SetCols] : n \in 1..MaxSet}
UpdConjuncts ==
  {[shape |-> "eq", col |-> colB], [shape |-> "le", col |-> colB],
   [shape |-> "like", col |-> colA], [shape |-> "isnull", col |-> colB],
   [shape |-> "upper", col |-> colB]}
UpdConjLists == {<<>>} \cup {<<c>> : c \in UpdConjuncts}

RECURSIVE SetText(_)
SetText(cols) ==
  IF cols = <<>> THEN <<>>
  ELSE IF Len(cols) = 1 THEN <<cols[1], tEQ, tQ>>
  ELSE <<cols[1], tEQ, tQ, tCOMMA>> \o SetText(Tail(cols))
UpdateText(cols, conjs) ==
  <<tUPDATE, tblT, tSET>> \o SetText(cols)
    \o (IF conjs = <<>> THEN <<>> ELSE <<tWHERE>> \o WhereText(conjs))

UpdNotCalled == [done |-> FALSE, table |-> None, updates |-> <<>>, filters |-> <<>>]

UpdateIdle ==
  /\ u_cols = <<>> /\ u_conjs = <<>> /\ u_sql = <<>> /\ u_params = <<>>
  /\ u_out = UpdNotCalled

UpdateInputs ==
  /\ u_cols \in SetLists
  /\ u_conjs \in UpdConjLists
  /\ u_sql = UpdateText(u_cols, u_conjs)
  /\ \E e \in 0..MaxExtra, r \in Rotations :
       u_params = ParamList(CountQ(u_sql) + e, r)
  /\ u_out = UpdNotCalled

\* the caller of _parse_update
UpdateCall ==
  /\ ~u_out.done
  /\ u_out' = [done |-> TRUE] @@ _parse_update(u_sql, u_params)
  /\ UNCHANGED <<u_cols, u_conjs, u_sql, u_params>>
  /\ UNCHANGED <<wvars, cvars, xvars, rvars, avars, fvars, svars>>

(***************************************************************************)
(* The Connections and their callers.  Two Connections, as get_conn        *)
(* returns them, and two callers that may each execute on either.  A call  *)
(* of execute is one step: the blocking HTTP call it makes is answered     *)
(* within it, by any of the answers the backend may give.                  *)
(***************************************************************************)
Conns == {"k1", "k2"}
Callers == {"t1", "t2"}

colFull == <<"f", "u", "l", "l", "_", "n", "a", "m", "e">>
colPhone == <<"p", "h", "o", "n", "e">>
colUpdated == <<"u", "p", "d", "a", "t", "e", "d", "_", "a", "t">>
tIF == <<"I", "F">>
tEXISTS == <<"E", "X", "I", "S", "T", "S">>
tBEGIN == <<"B", "E", "G", "I", "N">>
tpragma == <<"p", "r", "a", "g", "m", "a">>
tForeignKeys == <<"f", "o", "r", "e", "i", "g", "n", "_", "k", "e", "y", "s">>
tLastRowidCall == <<"l", "a", "s", "t", "_", "i", "n", "s", "e", "r", "t", "_", "r", "o", "w",
                    "i", "d">>
vJuan == PyStr(<<"J", "u", "a", "n">>)
vPhone == PyStr(<<"+", "5", "6">>)
vStage == PyStr(<<"n", "e", "w">>)

sqlInsert == <<tINSERT, tINTO, tblT, tLP, colFull, tCOMMA, colPhone, tRP,
               tVALUES, tLP, tQ, tCOMMA, tQ, tRP>>
sqlSelect == <<tSELECT, tSTAR, tFROM, tblT, tWHERE, colB, tEQ, tQ,
               tORDER, tBY, colUpdated, tDESC>>
sqlCount == <<tSELECT, tCOUNT, tLP, tSTAR, tRP, tFROM, tblT, tWHERE, colB, tEQ, tQ>>
sqlUpdate == <<tUPDATE, tblT, tSET, colB, tEQ, tQ, tWHERE, kId, tEQ, tQ>>
sqlDelete == <<tDELETE, tFROM, tblT, tWHERE, kId, tEQ, tQ>>
sqlCreate == <<tCREATE, tTABLE, tIF, tNOT, tEXISTS, tblT, tLP, kId, tRP>>
sqlPragma == <<tpragma, tForeignKeys>>
sqlLastId == <<tSELECT, tLastRowidCall, tLP, tRP>>
sqlBegin == <<tBEGIN>>

Text ==
  [insert |-> [sql |-> sqlInsert, params |-> <<vJuan, vPhone>>],
   select |-> [sql |-> sqlSelect, params |-> <<vStage>>],
   count |-> [sql |-> sqlCount, params |-> <<vStage>>],
   update |-> [sql |-> sqlUpdate, params |-> <<vStage, PyInt(20)>>],
   delete |-> [sql |-> sqlDelete, params |-> <<PyInt(5)>>],
   create |-> [sql |-> sqlCreate, params |-> <<>>],
   pragma |-> [sql |-> sqlPragma, params |-> <<>>],
   lastid |-> [sql |-> sqlLastId, params |-> <<>>],
   begin |-> [sql |-> sqlBegin, params |-> <<>>]]
Statements == DOMAIN Text

NoHttp == [method |-> "none", table |-> None, params |-> <<>>, json |-> <<>>]

\* the branch and the HTTP request of each statement: execute derives both
\* from the SQL text and the parameters alone, so they are computed once
Parsed ==
  [st \in Statements |->
     [kind |-> Classify(Text[st].sql),
      http |-> IF Classify(Text[st].sql) \in HttpKinds
               THEN RequestOf(Text[st].sql, Text[st].params)
               ELSE NoHttp]]

\* what the backend may answer to a request, n ids having been generated
rowNamed == <<<<kName, vJuan>>>>
rowWithId(n) == <<<<kId, PyInt(n)>>, <<kName, vJuan>>>>
kMessage == <<"m", "e", "s", "s", "a", "g", "e">>
vDuplicate == PyStr(<<"d", "u", "p", "l", "i", "c", "a", "t", "e">>)
\* a call that raised (status 0), or an error status with an empty body
Failure(status) == [status |-> status, list |-> TRUE, body |-> <<>>]
\* an error status with the backend's error object as its body
Rejected(status) == [status |-> status, list |-> FALSE, body |-> <<<<<<kMessage, vDuplicate>>>>>>]
Responses(method, n) ==
  CASE method = "GET" ->
         {Failure(0), Rejected(500),
          [status |-> 200, list |-> TRUE, body |-> <<>>],
          [status |-> 200, list |-> TRUE, body |-> <<rowNamed>>]}
    [] method = "POST" ->
         {Failure(0), Rejected(400),
          [status |-> 201, list |-> TRUE, body |-> <<>>],
          [status |-> 201, list |-> TRUE, body |-> <<rowNamed>>],
          [status |-> 201, list |-> TRUE, body |-> <<rowWithId(n + 1)>>],
          [status |-> 201, list |-> TRUE, body |-> <<rowWithId(n + 1), rowWithId(n + 2)>>],
          [status |-> 200, list |-> FALSE, body |-> <<rowWithId(n + 1)>>]}
    [] method \in {"PATCH", "DELETE"} ->
         {Failure(0), Failure(500), [status |-> 204, list |-> TRUE, body |-> <<>>]}
    [] OTHER -> {}

\* the rows a response echoes, and how many of them carry a generated id
Echoed(resp) == IF resp.list THEN json(resp) ELSE <<json(resp)>>
NewIds(resp) == Cardinality({i \in 1..Len(Echoed(resp)) : DictHas(Echoed(resp)[i], kId)})
Accepted(resp) == resp.status \in {200, 201}

NoInsert == [k |-> "noinsert"]
Unknown == [k |-> "unknown"]
NoRet == [caller |-> "none", conn |-> "none", kind |-> "none", http |-> NoHttp,
          status |-> -1, rows |-> <<>>]

ConnInit ==
  /\ last_insert_id = [k \in Conns |-> get_conn]
  /\ parsed = Parsed
  /\ ret = NoRet
  /\ origin = <<>>
  /\ lastOk = [k \in Conns |-> NoInsert]

\* execute of ignored DDL, of the last-insert-id statement, of an unclassified
\* statement: no HTTP call
ExecuteLocal(t, k, st) ==
  /\ parsed[st].kind \in LocalKinds
  /\ ret' = [caller |-> t, conn |-> k, kind |-> parsed[st].kind, http |-> NoHttp,
             status |-> -1,
             rows |-> ExecuteLocalRows(parsed[st].kind, last_insert_id[k])]
  /\ UNCHANGED <<last_insert_id, parsed, origin, lastOk>>
  /\ UNCHANGED <<wvars, uvars, xvars, rvars, avars, fvars, svars>>

\* execute of a SELECT, INSERT, UPDATE or DELETE: one HTTP call, answered by resp
ExecuteHttp(t, k, st, resp) ==
  /\ parsed[st].kind \in HttpKinds
  /\ Len(origin) + NewIds(resp) <= MaxId
  /\ LET kind == parsed[st].kind
         first == Echoed(resp)[1]
         landed == kind = "insert" /\ Accepted(resp) /\ Echoed(resp) # <<>>
     IN /\ last_insert_id' = ExecuteStore(last_insert_id, k, kind, resp)
        /\ ret' = [caller |-> t, conn |-> k, kind |-> kind, http |-> parsed[st].http,
                   status |-> resp.status, rows |-> ExecuteRows(kind, resp)]
        /\ origin' = origin \o [i \in 1..NewIds(resp) |-> [by |-> t, on |-> k]]
        /\ lastOk' = IF landed
                     THEN [lastOk EXCEPT ![k] = IF DictHas(first, kId)
                                                THEN DictGet(first, kId) ELSE Unknown]
                     ELSE lastOk
  /\ UNCHANGED parsed
  /\ UNCHANGED <<wvars, uvars, xvars, rvars, avars, fvars, svars>>

(***************************************************************************)
(* One call of execute on a Connection of its own, over a wider set of     *)
(* statements: the forms the application issues and forms outside the      *)
(* accepted set.                                                           *)
(***************************************************************************)
tOR == <<"O", "R">>
tREPLACE == <<"R", "E", "P", "L", "A", "C", "E">>
tON == <<"O", "N">>
tADD == <<"A", "D", "D">>
tcreate == <<"c", "r", "e", "a", "t", "e">>
tindex == <<"i", "n", "d", "e", "x">>
tselect == <<"s", "e", "l", "e", "c", "t">>
tcount == <<"c", "o", "u", "n", "t">>
tfrom == <<"f", "r", "o", "m">>
twhere == <<"w", "h", "e", "r", "e">>
tdesc == <<"d", "e", "s", "c">>
tIdx == <<"i", "d", "x">>
tN == <<"n">>
colUrl == <<"f", "u", "n", "n", "e", "l", "_", "u", "r", "l">>
colAliasId == <<"b", ".", "i", "d">>
colUpperAliasId == <<"B", ".", "i", "d">>
colLongAliasName == <<"c", "l", ".", "f", "u", "l", "l", "_", "n", "a", "m", "e">>

ExecText ==
  [\* ignored DDL
   d_create |-> [sql |-> sqlCreate, params |-> <<>>],
   d_index  |-> [sql |-> <<tcreate, tindex, tIdx, tON, tblT, tLP, colB, tRP>>, params |-> <<>>],
   d_alter  |-> [sql |-> <<tALTER, tTABLE, tblT, tADD, tLastRowidCall>>, params |-> <<>>],
   d_drop   |-> [sql |-> <<tDROP, tTABLE, tblT>>, params |-> <<>>],
   d_pragma |-> [sql |-> sqlPragma, params |-> <<>>],
   d_select |-> [sql |-> <<tPRAGMA, tSELECT, tCOUNT, tLP, tSTAR, tRP, tFROM, tblT>>,
                 params |-> <<>>],
   \* forms outside the accepted set
   o_insrep  |-> [sql |-> <<tINSERT, tOR, tREPLACE, tINTO, tblT, tLP, colFull, tRP,
                           tVALUES, tLP, tQ, tRP>>, params |-> <<vJuan>>],
   o_replace |-> [sql |-> <<tREPLACE, tINTO, tblT, tLP, colFull, tRP, tVALUES, tLP, tQ, tRP>>,
                  params |-> <<vJuan>>],
   o_begin   |-> [sql |-> sqlBegin, params |-> <<>>],
   \* WHERE clauses with OR and with a parenthesised group
   s_or    |-> [sql |-> <<tSELECT, tSTAR, tFROM, tblT, tWHERE, colUrl, tEQ, tQ, tOR,
                         kId, tEQ, tQ, tLIMIT, tONE>>, params |-> <<vJuan, PyInt(5)>>],
   s_paren |-> [sql |-> <<tSELECT, tSTAR, tFROM, tblT, tWHERE, tLP, colB, tEQ, tQ, tOR,
                         colPhone, tEQ, tQ, tRP, tAND, kId, tEQ, tQ>>,
                params |-> <<vStage, vPhone, PyInt(5)>>],
   x_or    |-> [sql |-> <<tDELETE, tFROM, tblT, tWHERE, colB, tEQ, tQ, tOR, kId, tEQ, tQ>>,
                params |-> <<vStage, PyInt(5)>>],
   \* SELECT COUNT(*)
   c_where |-> [sql |-> sqlCount, params |-> <<vStage>>],
   c_all   |-> [sql |-> <<tSELECT, tCOUNT, tLP, tSTAR, tRP, tFROM, tblT>>, params |-> <<>>],
   c_lower |-> [sql |-> <<tselect, tcount, tLP, tSTAR, tRP, tAS, tN, tfrom, tblT, twhere,
                         colB, tEQ, tQ, tand, colPhone, tlike, tQ>>,
                params |-> <<vStage, vPhone>>],
   \* INSERT
   i_one   |-> [sql |-> <<tINSERT, tINTO, tblT, tLP, colFull, tRP, tVALUES, tLP, tQ, tRP>>,
                params |-> <<vJuan>>],
   i_two   |-> [sql |-> sqlInsert, params |-> <<vJuan, vPhone>>],
   i_three |-> [sql |-> <<tINSERT, tINTO, tblT, tLP, colFull, tCOMMA, colPhone, tCOMMA, colB,
                         tRP, tVALUES, tLP, tQ, tCOMMA, tQ, tCOMMA, tQ, tRP>>,
                params |-> <<vJuan, None, PyInt(5)>>],
   \* SELECT with ORDER BY
   s_order |-> [sql |-> sqlSelect, params |-> <<vStage>>],
   s_multi |-> [sql |-> <<tSELECT, tSTAR, tFROM, tblT, tWHERE, colB, tEQ, tQ, tORDER, tBY,
                         colFull, tASC, tCOMMA, colAliasId, tdesc, tCOMMA, colUpdated,
                         tLIMIT, <<"5">>>>, params |-> <<vStage>>],
   s_upper |-> [sql |-> <<tSELECT, tSTAR, tFROM, tblT, tORDER, tBY, colUpperAliasId, tDESC>>,
                params |-> <<>>],
   s_long  |-> [sql |-> <<tSELECT, tSTAR, tFROM, tblT, tWHERE, colB, tEQ, tQ, tORDER, tBY,
                         colLongAliasName>>, params |-> <<vStage>>],
   s_limit |-> [sql |-> <<tSELECT, tSTAR, tFROM, tblT, tWHERE, colB, tEQ, tQ,
                         tLIMIT, <<"5">>>>, params |-> <<vStage>>],
   s_zero  |-> [sql |-> <<tSELECT, tSTAR, tFROM, tblT, tWHERE, colB, tEQ, tQ,
                         tLIMIT, <<"0">>>>, params |-> <<vStage>>],
   \* the remaining kinds
   u_where |-> [sql |-> sqlUpdate, params |-> <<vStage, PyInt(20)>>],
   x_where |-> [sql |-> sqlDelete, params |-> <<PyInt(5)>>],
   \* writes whose WHERE clause the compiler does not recognize, or skips
   u_ne    |-> [sql |-> <<tUPDATE, tblT, tSET, colB, tEQ, tQ, tWHERE, colB, tNE, tQ>>,
                params |-> <<vStage, vStage>>],
   x_ne    |-> [sql |-> <<tDELETE, tFROM, tblT, tWHERE, colB, tNE, tQ>>,
                params |-> <<vStage>>],
   x_true  |-> [sql |-> <<tDELETE, tFROM, tblT, tWHERE, tONE, tEQ, tONE>>, params |-> <<>>],
   l_read  |-> [sql |-> sqlLastId, params |-> <<>>]]
ExecStatements == DOMAIN ExecText

\* the answer slot of a call that makes no HTTP request
NoAnswer == [status |-> -1, list |-> TRUE, body |-> <<>>]

ExecLids == {None, PyInt(7)}
execute_retrying(sql, params, lid, resp) ==
  LET kind == Classify(sql)
      Only(S) == CHOOSE r \in S : TRUE
  IN IF kind \in LocalKinds
     THEN [done |-> TRUE, kind |-> kind, http |-> NoHttp, status |-> -1,
           rows |-> ExecuteLocalRows(kind, lid), lid |-> lid, args |-> params,
           sent |-> <<>>, error |-> "none"]
     ELSE Only({[done |-> TRUE, kind |-> kind, http |-> h, status |-> resp.status,
                 rows |-> ExecuteRows(kind, resp),
                 lid |-> ExecuteStore([c \in {"k"} |-> lid], "k", kind, resp)["k"],
                 args |-> params,
                 sent |-> IF resp.status \in 200..299 THEN <<h>> ELSE <<h, h>>,
                 error |-> "none"] : h \in {RequestOf(sql, params)}})
execute_with_last_id(sql, params, lid, resp) ==
  LET kind == Classify(sql)
      Only(S) == CHOOSE r \in S : TRUE
  IN IF kind \in LocalKinds
     THEN [done |-> TRUE, kind |-> kind, http |-> NoHttp, status |-> -1,
           rows |-> ExecuteLocalRows(kind, lid), lid |-> lid, args |-> params,
           sent |-> <<>>, error |-> "none"]
     ELSE Only({[done |-> TRUE, kind |-> kind,
                 http |-> IF lid = None THEN h
                          ELSE [h EXCEPT !.params = Append(@, <<kId, lid>>)],
                 status |-> resp.status,
                 rows |-> ExecuteRows(kind, resp),
                 lid |-> ExecuteStore([c \in {"k"} |-> lid], "k", kind, resp)["k"],
                 args |-> params,
                 sent |-> <<h>>,
                 error |-> "none"] : h \in {RequestOf(sql, params)}})
\* SupabaseConn.execute(sql, params) on a Connection whose _last_insert_id is
\* lid, its HTTP call (if it makes one) answered by resp: what it sent, what
\* it returned, the _last_insert_id it leaves, and the caller's parameter
\* sequence after the call (execute works on list(params), its own copy);
\* sent lists the requests made, in order
execute(sql, params, lid, resp) ==
  LET kind == Classify(sql)
      Only(S) == CHOOSE r \in S : TRUE
  IN IF kind \in LocalKinds
     THEN [done |-> TRUE, kind |-> kind, http |-> NoHttp, status |-> -1,
           rows |-> ExecuteLocalRows(kind, lid), lid |-> lid, args |-> params,
           sent |-> <<>>, error |-> "none"]
     ELSE Only({[done |-> TRUE, kind |-> kind, http |-> h, status |-> resp.status,
                 rows |-> ExecuteRows(kind, resp),
                 lid |-> ExecuteStore([c \in {"k"} |-> lid], "k", kind, resp)["k"],
                 args |-> params,
                 sent |-> <<h>>,
                 error |-> "none"] : h \in {RequestOf(sql, params)}})

NotExecuted == [done |-> FALSE, kind |-> "none", http |-> NoHttp, status |-> -1,
                rows |-> <<>>, lid |-> None, args |-> <<>>, sent |-> <<>>, error |-> "none"]
ExecIdle == x_sql = "l_read" /\ x_lid = None /\ x_resp = NoAnswer /\ x_out = NotExecuted
ExecInputs ==
  /\ x_sql \in ExecStatements
  /\ x_lid \in ExecLids
  /\ x_resp = NoAnswer
  /\ x_out = NotExecuted

\* the answers the backend may give to a call of the statement's kind
ExecAnswers(sql) ==
  LET kind == Classify(sql)
  IN CASE kind \in LocalKinds -> {NoAnswer}
       [] kind \in {"count", "select"} -> Responses("GET", 0)
       [] kind = "insert" -> Responses("POST", 0)
       [] kind = "update" -> Responses("PATCH", 0)
       [] kind = "delete" -> Responses("DELETE", 0)

\* the caller of execute
ExecCall ==
  /\ ~x_out.done
  /\ \E resp \in ExecAnswers(ExecText[x_sql].sql) :
       /\ x_resp' = resp
       /\ x_out' = execute(ExecText[x_sql].sql, ExecText[x_sql].params, x_lid, resp)
  /\ UNCHANGED <<x_sql, x_lid>>
  /\ UNCHANGED <<wvars, uvars, cvars, rvars, avars, fvars, svars>>

(***************************************************************************)
(* filter_listings and sort_listings                                       *)
(* (src/Funnels/execution/filter_listings.py:34-115).  A listing is a dict *)
(* with the keys url, is_sold, year, days_active and, once flagged, _flag; *)
(* the loop flags the dicts of its input in place.                         *)
(***************************************************************************)
sNoYear == <<"n", "o", "_", "y", "e", "a", "r", "_", "d", "e", "t", "e", "c", "t", "e", "d">>
sNoDate == <<"|", "n", "o", "_", "d", "a", "t", "e">>
Absent == [k |-> "absent"]

FlagOf_empty(listing) == <<>>
\* listing.get("_flag", "")
FlagOf(listing) == IF listing.flag = Absent THEN <<>> ELSE listing.flag.s

NoStats ==
  [total_input |-> 0, removed_sold |-> 0, removed_too_new_listing |-> 0,
   removed_year_too_old |-> 0, removed_no_year |-> 0, removed_no_date |-> 0,
   removed_duplicate |-> 0, total_output |-> 0]

\* one pass of the for loop: i is the position of listing in the input, st
\* holds filtered (positions of the input, in the order appended), seen_urls,
\* stats and listings (the dicts of the input as they are by now)
FilterStep_drop_unflagged(st, i, min_year, min_days_active, exclude_sold) ==
  LET listing == st.listings[i]
      bump(stats, key) == [stats EXCEPT ![key] = @ + 1]
  IN IF listing.url \in st.seen_urls
     THEN [st EXCEPT !.stats = bump(@, "removed_duplicate")]
     ELSE IF exclude_sold /\ listing.is_sold
     THEN [st EXCEPT !.seen_urls = @ \cup {listing.url},
                     !.stats = bump(@, "removed_sold")]
     ELSE IF listing.year = None
     THEN [st EXCEPT !.seen_urls = @ \cup {listing.url},
                     !.listings[i].flag = PyStr(sNoYear),
                     !.stats = bump(@, "removed_no_year")]
     ELSE IF listing.year.n < min_year
     THEN [st EXCEPT !.seen_urls = @ \cup {listing.url},
                     !.stats = bump(@, "removed_year_too_old")]
     ELSE IF listing.days_active = None
     THEN [st EXCEPT !.seen_urls = @ \cup {listing.url},
                     !.listings[i].flag = PyStr(FlagOf(listing) \o sNoDate),
                     !.stats = bump(@, "removed_no_date")]
     ELSE IF listing.days_active.n < min_days_active
     THEN [st EXCEPT !.seen_urls = @ \cup {listing.url},
                     !.stats = bump(@, "removed_too_new_listing")]
     ELSE [st EXCEPT !.seen_urls = @ \cup {listing.url},
                     !.filtered = Append(@, i)]
FilterStep(st, i, min_year, min_days_active, exclude_sold) ==
  LET listing == st.listings[i]
      bump(stats, key) == [stats EXCEPT ![key] = @ + 1]
      seen == [st EXCEPT !.seen_urls = @ \cup {listing.url}]
      \* the year filter: flags and goes on, or removes
      noyear == listing.year = None
      yeared == IF noyear
                THEN [seen EXCEPT !.listings[i].flag = PyStr(sNoYear),
                                  !.stats = bump(@, "removed_no_year")]
                ELSE seen
      \* the listing age filter, on the listing as the year filter left it
      nodate == listing.days_active = None
      dated == IF nodate
               THEN [yeared EXCEPT
                       !.listings[i].flag = PyStr(FlagOf(yeared.listings[i]) \o sNoDate),
                       !.stats = bump(@, "removed_no_date")]
               ELSE yeared
  IN IF listing.url \in st.seen_urls
     THEN [st EXCEPT !.stats = bump(@, "removed_duplicate")]
     ELSE IF exclude_sold /\ listing.is_sold
     THEN [seen EXCEPT !.stats = bump(@, "removed_sold")]
     ELSE IF ~noyear /\ listing.year.n < min_year
     THEN [seen EXCEPT !.stats = bump(@, "removed_year_too_old")]
     ELSE IF ~nodate /\ listing.days_active.n < min_days_active
     THEN [yeared EXCEPT !.stats = bump(@, "removed_too_new_listing")]
     ELSE [dated EXCEPT !.filtered = Append(@, i)]

RECURSIVE FilterLoop(_, _, _, _, _)
FilterLoop(st, i, min_year, min_days_active, exclude_sold) ==
  IF i > Len(st.listings) THEN st
  ELSE FilterLoop(FilterStep(st, i, min_year, min_days_active, exclude_sold),
                  i + 1, min_year, min_days_active, exclude_sold)

filter_listings_output_uncounted(listings, min_year, min_days_active, exclude_sold) ==
  LET st == FilterLoop([filtered |-> <<>>, seen_urls |-> {},
                        stats |-> [NoStats EXCEPT !.total_input = Len(listings)],
                        listings |-> listings],
                       1, min_year, min_days_active, exclude_sold)
  IN [done |-> TRUE,
      filtered |-> [j \in 1..Len(st.filtered) |->
                      [at |-> st.filtered[j], listing |-> st.listings[st.filtered[j]]]],
      stats |-> st.stats,
      listings |-> st.listings]
\* filter_listings(listings, min_year, min_days_active, exclude_sold) ->
\* (filtered, stats); filtered holds, for each listing appended, its position
\* in the input and the dict as the call left it
filter_listings(listings, min_year, min_days_active, exclude_sold) ==
  LET st == FilterLoop([filtered |-> <<>>, seen_urls |-> {},
                        stats |-> [NoStats EXCEPT !.total_input = Len(listings)],
                        listings |-> listings],
                       1, min_year, min_days_active, exclude_sold)
  IN [done |-> TRUE,
      filtered |-> [j \in 1..Len(st.filtered) |->
                      [at |-> st.filtered[j], listing |-> st.listings[st.filtered[j]]]],
      stats |-> [st.stats EXCEPT !.total_output = Len(st.filtered)],
      listings |-> st.listings]

\* the lists of at most n elements of S
ListsOf(S, n) == UNION {[1..k -> S] : k \in 0..n}
\* sort_listings: sort_key(l), unknowns as -1
sort_key(l) == IF l.days_active = None THEN -1 ELSE l.days_active.n

\* sorted(listings, key=sort_key, reverse=True): a stable sort, so listings
\* with equal keys keep the order they had.  Positions of the input, in the
\* order of the result.
RECURSIVE InsertByKey(_, _, _)
InsertByKey(order, i, listings) ==
  IF order = <<>> THEN <<i>>
  ELSE IF sort_key(listings[Head(order)]) >= sort_key(listings[i])
  THEN <<Head(order)>> \o InsertByKey(Tail(order), i, listings)
  ELSE <<i>> \o order
RECURSIVE SortedFrom(_, _, _)
SortedFrom(order, i, listings) ==
  IF i > Len(listings) THEN order
  ELSE SortedFrom(InsertByKey(order, i, listings), i + 1, listings)
sort_listings(listings) ==
  [done |-> TRUE, order |-> SortedFrom(<<>>, 1, listings)]

\* the inputs: two URLs, years and ages on both sides of the thresholds
Urls == {"u1", "u2"}
MinYears == {2015, 2020}
min_days_active == 14
Listings ==
  [url : Urls, is_sold : BOOLEAN, year : {None, PyInt(2010), PyInt(2017)},
   days_active : {None, PyInt(5), PyInt(30)}, flag : {Absent}]
Sortables ==
  [url : Urls, is_sold : {FALSE}, year : {PyInt(2017)},
   days_active : {None, PyInt(-3), PyInt(0), PyInt(30)}, flag : {Absent}]

NotFiltered == [done |-> FALSE, filtered |-> <<>>, stats |-> NoStats, listings |-> <<>>]
FilterIdle ==
  /\ f_listings = <<>> /\ f_min_year = 2015 /\ f_exclude_sold = TRUE /\ f_out = NotFiltered
FilterInputs ==
  /\ f_listings \in ListsOf(Listings, MaxList)
  /\ f_min_year \in MinYears
  /\ f_exclude_sold \in BOOLEAN
  /\ f_out = NotFiltered
FilterCall ==
  /\ ~f_out.done
  /\ f_out' = filter_listings(f_listings, f_min_year, min_days_active, f_exclude_sold)
  /\ UNCHANGED <<f_listings, f_min_year, f_exclude_sold>>
  /\ UNCHANGED <<wvars, uvars, cvars, xvars, rvars, avars, svars>>

NotSorted == [done |-> FALSE, order |-> <<>>]
SortIdle == s_listings = <<>> /\ s_out = NotSorted
SortInputs == s_listings \in ListsOf(Sortables, MaxList) /\ s_out = NotSorted
SortCall ==
  /\ ~s_out.done
  /\ s_out' = sort_listings(s_listings)
  /\ UNCHANGED s_listings
  /\ UNCHANGED <<wvars, uvars, cvars, xvars, rvars, avars, fvars>>

(***************************************************************************)
(* SupabaseResult (src/db.py:45-63): one result and the caller that holds  *)
(* it.  fetchall returns the list self._rows itself, so what the caller    *)
(* does to that list is done to the result's rows.                         *)
(***************************************************************************)
RowPool == {rowNamed, rowWithId(1), rowWithId(2)}
NothingSeen == [op |-> "none", val |-> <<>>]
ResultIdle == r_rows = <<>> /\ r_built = <<>> /\ r_held = FALSE /\ r_obs = NothingSeen

\* SupabaseResult(rows): self._rows = rows or []
ResultBuilt ==
  /\ r_rows \in ListsOf(RowPool, MaxRows)
  /\ r_built = r_rows
  /\ r_held = FALSE
  /\ r_obs = NothingSeen

\* result.fetchone(): None is recorded as no row, a row as the list of it
ResultFetchone ==
  /\ r_obs' = [op |-> "fetchone",
               val |-> IF r_rows = <<>> THEN <<>> ELSE <<fetchone(r_rows)>>]
  /\ UNCHANGED <<r_rows, r_built, r_held>>
  /\ UNCHANGED <<wvars, uvars, cvars, xvars, avars, fvars, svars>>

\* result.fetchall(): the caller now holds self._rows
ResultFetchall ==
  /\ r_obs' = [op |-> "fetchall", val |-> fetchall(r_rows)]
  /\ r_held' = TRUE
  /\ UNCHANGED <<r_rows, r_built>>
  /\ UNCHANGED <<wvars, uvars, cvars, xvars, avars, fvars, svars>>

\* list(result): iter(self._rows), read to its end
ResultIter ==
  /\ r_obs' = [op |-> "iter", val |-> r_rows]
  /\ UNCHANGED <<r_rows, r_built, r_held>>
  /\ UNCHANGED <<wvars, uvars, cvars, xvars, avars, fvars, svars>>

\* len(result)
ResultLen ==
  /\ r_obs' = [op |-> "len", val |-> Len(r_rows)]
  /\ UNCHANGED <<r_rows, r_built, r_held>>
  /\ UNCHANGED <<wvars, uvars, cvars, xvars, avars, fvars, svars>>

\* the caller changes the list it got from fetchall: append, pop, clear
CallerAppend(row) ==
  /\ r_held
  /\ Len(r_rows) < MaxRows
  /\ r_rows' = Append(r_rows, row)
  /\ UNCHANGED <<r_built, r_held, r_obs>>
  /\ UNCHANGED <<wvars, uvars, cvars, xvars, avars, fvars, svars>>

CallerPop ==
  /\ r_held
  /\ r_rows # <<>>
  /\ r_rows' = SubSeq(r_rows, 1, Len(r_rows) - 1)
  /\ UNCHANGED <<r_built, r_held, r_obs>>
  /\ UNCHANGED <<wvars, uvars, cvars, xvars, avars, fvars, svars>>

CallerClear ==
  /\ r_held
  /\ r_rows # <<>>
  /\ r_rows' = <<>>
  /\ UNCHANGED <<r_built, r_held, r_obs>>
  /\ UNCHANGED <<wvars, uvars, cvars, xvars, avars, fvars, svars>>

(***************************************************************************)
(* SupabaseRow (src/db.py:66-75): a dict with attribute access.  Python    *)
(* looks a name up on the class first, SupabaseRow and then dict, and      *)
(* calls __getattr__ only for a name it did not find there.                *)
(***************************************************************************)
kKeys == <<"k", "e", "y", "s">>
kValues == <<"v", "a", "l", "u", "e", "s">>
kItems == <<"i", "t", "e", "m", "s">>
kUpdate == <<"u", "p", "d", "a", "t", "e">>
kGet == <<"g", "e", "t">>
\* the names among these that SupabaseRow defines or inherits from dict
ClassAttributes == {kKeys, kValues, kItems, kUpdate, kGet}
\* the column names rows are built from, and the names looked up
ColumnNames == <<kId, kName, kKeys, kValues, kItems, kUpdate, kGet>>
LookedUp == Range(ColumnNames) \cup {colPhone}
\* the row that has the columns S, each holding its own number
RowOf(S) ==
  LET at == SelectSeq([i \in 1..Len(ColumnNames) |-> i], LAMBDA i : ColumnNames[i] \in S)
  IN [j \in 1..Len(at) |-> <<ColumnNames[at[j]], PyInt(at[j])>>]

NotLooked == [done |-> FALSE, via |-> "none", kind |-> "none", val |-> None]
RowIdle == a_row = <<>> /\ a_name = <<>> /\ a_out = NotLooked
\* the rows execute builds for SELECT last_insert_rowid() and for
\* SELECT COUNT(*) (src/db.py:110-119): one column, named after the expression
SingleValueRows ==
  {LastIdRows(lid)[1] : lid \in ExecLids} \cup
  {<<<<kCount, PyInt(n)>>>> : n \in 0..MaxRows}
RowInputs ==
  /\ a_row \in {RowOf(S) : S \in SUBSET Range(ColumnNames)} \cup SingleValueRows
  /\ a_name \in LookedUp
  /\ a_out = NotLooked

\* row[key]
SupabaseRow__getitem__(row, key) ==
  IF DictHas(row, key)
  THEN [done |-> TRUE, via |-> "item", kind |-> "value", val |-> DictGet(row, key)]
  ELSE [done |-> TRUE, via |-> "item", kind |-> "KeyError", val |-> None]

\* SupabaseRow.__getattr__(key): self[key], KeyError turned into AttributeError
SupabaseRow__getattr__(row, key) ==
  LET item == SupabaseRow__getitem__(row, key)
  IN IF item.kind = "KeyError"
     THEN [done |-> TRUE, via |-> "attr", kind |-> "AttributeError", val |-> None]
     ELSE [item EXCEPT !.via = "attr"]

\* row.name: the method of the class when the class has the name, else
\* __getattr__
getattr(row, name) ==
  IF name \in ClassAttributes
  THEN [done |-> TRUE, via |-> "attr", kind |-> "method", val |-> None]
  ELSE SupabaseRow__getattr__(row, name)

\* row[key] for a key of any Python type: the keys of a row are column
\* names, strings, and a dict finds only a key equal to the one asked for
dict__getitem__(row, key) ==
  IF key.k = "str" THEN SupabaseRow__getitem__(row, key.s)
  ELSE [done |-> TRUE, via |-> "item", kind |-> "KeyError", val |-> None]

\* the caller reads row.name
RowAttr ==
  /\ ~a_out.done
  /\ a_out' = getattr(a_row, a_name)
  /\ UNCHANGED <<a_row, a_name>>
  /\ UNCHANGED <<wvars, uvars, cvars, xvars, rvars, fvars, svars>>

\* the caller reads row["name"]
RowItem ==
  /\ ~a_out.done
  /\ a_out' = SupabaseRow__getitem__(a_row, a_name)
  /\ UNCHANGED <<a_row, a_name>>
  /\ UNCHANGED <<wvars, uvars, cvars, xvars, rvars, fvars, svars>>

\* the caller reads row[0], as in execute(...).fetchone()[0]
\* (src/app.py:3342, 3479)
RowIndex ==
  /\ ~a_out.done
  /\ a_out' = [dict__getitem__(a_row, PyInt(0)) EXCEPT !.via = "index"]
  /\ UNCHANGED <<a_row, a_name>>
  /\ UNCHANGED <<wvars, uvars, cvars, xvars, rvars, fvars, svars>>

AInit == RowInputs /\ WhereIdle /\ UpdateIdle /\ ConnInit /\ ExecIdle /\ ResultIdle /\ FilterIdle /\ SortIdle
ANext == RowAttr \/ RowItem \/ RowIndex
SpecRow == AInit /\ [][ANext]_vars

RInit == ResultBuilt /\ WhereIdle /\ UpdateIdle /\ ConnInit /\ ExecIdle /\ RowIdle /\ FilterIdle /\ SortIdle
RNext ==
  \/ ResultFetchone
  \/ ResultFetchall
  \/ ResultIter
  \/ ResultLen
  \/ \E row \in RowPool : CallerAppend(row)
  \/ CallerPop
  \/ CallerClear
SpecResult == RInit /\ [][RNext]_vars

Init == ConnInit /\ WhereIdle /\ UpdateIdle /\ ExecIdle /\ ResultIdle /\ RowIdle /\ FilterIdle /\ SortIdle
Next ==
  \/ \E t \in Callers, k \in Conns, st \in Statements : ExecuteLocal(t, k, st)
  \/ \E t \in Callers, k \in Conns, st \in Statements :
       \E resp \in Responses(parsed[st].http.method, Len(origin)) :
         ExecuteHttp(t, k, st, resp)
Spec == Init /\ [][Next]_vars

WInit == WhereInputs /\ UpdateIdle /\ ConnInit /\ ExecIdle /\ ResultIdle /\ RowIdle /\ FilterIdle /\ SortIdle
WNext == WhereCall
SpecWhere == WInit /\ [][WNext]_vars

UInit == UpdateInputs /\ WhereIdle /\ ConnInit /\ ExecIdle /\ ResultIdle /\ RowIdle /\ FilterIdle /\ SortIdle
UNext == UpdateCall
SpecUpdate == UInit /\ [][UNext]_vars

XInit == ExecInputs /\ WhereIdle /\ UpdateIdle /\ ConnInit /\ ResultIdle /\ RowIdle /\ FilterIdle /\ SortIdle
XNext == ExecCall
SpecExec == XInit /\ [][XNext]_vars

FInit ==
  /\ FilterInputs /\ SortIdle
  /\ WhereIdle /\ UpdateIdle /\ ConnInit /\ ExecIdle /\ ResultIdle /\ RowIdle
FNext == FilterCall
SpecFilter == FInit /\ [][FNext]_vars

SInit ==
  /\ SortInputs /\ FilterIdle
  /\ WhereIdle /\ UpdateIdle /\ ConnInit /\ ExecIdle /\ ResultIdle /\ RowIdle
SNext == SortCall
SpecSort == SInit /\ [][SNext]_vars

(***************************************************************************)
(* Properties of the predicate compiler.                                   *)
(***************************************************************************)
\* the number of placeholders of conjunct c, and of the conjuncts before the i-th
NQ(c) == CountQ(Render(c))
RECURSIVE QBefore(_, _)
QBefore(conjs, i) == IF i <= 1 THEN 0 ELSE QBefore(conjs, i - 1) + NQ(conjs[i - 1])

\* the shapes with one placeholder that the compiler documents
OneParamShapes == {"eq", "ge", "le", "gt", "lt", "like", "upper"}
ListedShapes == {"eq", "ge", "le", "gt", "lt", "like", "isnull", "notnull", "in", "notin"}
LettersOnly(col) == col # colC2
\* no later conjunct names the column of the i-th
LastOnColumn(conjs, i) == \A j \in (i + 1)..Len(conjs) : conjs[j].col # conjs[i].col

\* the filter value the specification gives for a shape and its bound value
txt(op, val) == op \o <<".">> \o val
ExpectedFilter(shape, val) ==
  CASE shape = "eq"      -> txt(<<"e", "q">>, val)
    [] shape = "ge"      -> txt(<<"g", "t", "e">>, val)
    [] shape = "le"      -> txt(<<"l", "t", "e">>, val)
    [] shape = "gt"      -> txt(<<"g", "t">>, val)
    [] shape = "lt"      -> txt(<<"l", "t">>, val)
    [] shape = "like"    -> txt(<<"i", "l", "i", "k", "e">>, val)
    [] shape = "upper"   -> txt(<<"i", "l", "i", "k", "e">>, val)
    [] shape = "isnull"  -> <<"i", "s", ".", "n", "u", "l", "l">>
    [] shape = "notnull" -> <<"n", "o", "t", ".", "i", "s", ".", "n", "u", "l", "l">>
    [] shape = "in"      -> <<"i", "n", ".", "(", "1", ",", "n", "e", "w", ")">>
    [] shape = "notin"   -> <<"n", "o", "t", ".", "i", "n", ".", "(", "1", ",", "n", "e", "w", ")">>

\* the text of a parameter value as the caller wrote it
ValueText(v) ==
  CASE v.k = "str"  -> v.s
    [] v.k = "int"  -> DigitsOf(v.n)
    [] v.k = "none" -> <<"N", "o", "n", "e">>

\* C6: with M >= N parameters for N placeholders, the k-th placeholder from
\* the left is bound to the k-th parameter whatever the shape of its conjunct
\* (BETWEEN, an IN list and unmatched conjuncts included): the parameters left
\* over are exactly those after the N-th, and every one-placeholder conjunct
\* that is the last on its column carries the parameter of its own position.
C6_PlaceholdersBoundInOrder ==
  w_out.done =>
    LET N == CountQ(w_where)
    IN /\ w_out.remaining = SubSeq(w_params, N + 1, Len(w_params))
       /\ \A i \in 1..Len(w_conjs) :
            LET c == w_conjs[i]
            IN (c.shape \in OneParamShapes /\ LettersOnly(c.col) /\ LastOnColumn(w_conjs, i))
                 => /\ DictHas(w_out.filters, c.col)
                    /\ DictGet(w_out.filters, c.col)
                         = ExpectedFilter(c.shape, ValueText(w_params[QBefore(w_conjs, i) + 1]))

\* C8: col BETWEEN ? AND ? gives two bounds on col, col >= first parameter and
\* col <= second parameter, consumes two parameters, and a following
\* conjunct stage = ? is bound to the third parameter.
C8_BetweenTwoBounds ==
  (/\ w_out.done /\ Len(w_conjs) = 2
   /\ w_conjs[1] = [shape |-> "between", col |-> colA]
   /\ w_conjs[2] = [shape |-> "eq", col |-> colB])
    => /\ \E f \in DictItems(w_out.filters) :
            f[1] = colA /\ f[2] = ExpectedFilter("ge", ValueText(w_params[1]))
       /\ \E f \in DictItems(w_out.filters) :
            f[1] \in {colA, colA \o <<"_", "l", "t", "e">>}
              /\ f[2] = ExpectedFilter("le", ValueText(w_params[2]))
       /\ \E f \in DictItems(w_out.filters) :
            f[1] = colB /\ f[2] = ExpectedFilter("eq", ValueText(w_params[3]))
       /\ Len(w_out.remaining) = Len(w_params) - 3

SwapAt(seq, i, j) ==
  [h \in 1..Len(seq) |-> IF h = i THEN seq[j] ELSE IF h = j THEN seq[i] ELSE seq[h]]
RECURSIVE BlocksOf(_, _, _)
BlocksOf(conjs, params, i) ==
  IF i > Len(conjs) THEN <<>>
  ELSE <<SubSeq(params, QBefore(conjs, i) + 1, QBefore(conjs, i) + NQ(conjs[i]))>>
         \o BlocksOf(conjs, params, i + 1)
SwapParams(conjs, params, i, j) ==
  Concat(SwapAt(BlocksOf(conjs, params, 1), i, j))
    \o SubSeq(params, QBefore(conjs, Len(conjs) + 1) + 1, Len(params))

\* C10: exchanging two placeholder conjuncts together with their parameters
\* leaves the compiled filter set unchanged, also when both conjuncts name
\* the same column.
C10_SwapSameFilters ==
  (/\ w_out.done
   /\ \A i \in 1..Len(w_conjs) :
        w_conjs[i].shape \in OneParamShapes /\ LettersOnly(w_conjs[i].col))
    => \A i, j \in 1..Len(w_conjs) :
         i < j =>
           DictItems(_parse_where_clause(WhereText(SwapAt(w_conjs, i, j)),
                                         SwapParams(w_conjs, w_params, i, j)).filters)
             = DictItems(w_out.filters)

\* C7: UPDATE t SET a1 = ?, ..., am = ? WHERE <n placeholders> with parameters
\* p1..p(m+n), for any valid column identifiers a1..am (distinct): the body is
\* exactly {a1: p1, ..., am: pm} and the filters are those compiled from
\* p(m+1).. in order.
Distinct(seq) == \A i, j \in 1..Len(seq) : i # j => seq[i] # seq[j]
C7_UpdateSplit ==
  (u_out.done /\ Distinct(u_cols)) =>
    LET m == Len(u_cols)
    IN /\ DictItems(u_out.updates) = {<<u_cols[i], u_params[i]>> : i \in 1..m}
       /\ u_out.filters
            = _parse_where_clause(WhereText(u_conjs),
                                  SubSeq(u_params, m + 1, Len(u_params))).filters

(***************************************************************************)
(* The last-insert id of a Connection                                      *)
(***************************************************************************)
IsId(v) == v \in {PyInt(n) : n \in 1..Len(origin)}
IsRead(r) == r.kind = "lastid"
\* the value a last-insert-id result carries
ReadValue(r) == RowGet(fetchone(r.rows), kLastRowid)
FailedInsert(r) == r.kind = "insert" /\ r.status \notin {200, 201}
LandedInsert(r) == r.kind = "insert" /\ r.rows # <<>>

\* C1: on one Connection, once an INSERT was accepted with X the id of the
\* first row echoed, and no later INSERT has landed there, the Connection
\* holds X and the last-insert-id statement answers with exactly one row of
\* exactly one column whose value is X, whatever else was executed since.
C1_InsertThenReadRoundTrip ==
  \A k \in Conns :
    IsId(lastOk[k]) =>
      /\ last_insert_id[k] = lastOk[k]
      /\ (IsRead(ret) /\ ret.conn = k) =>
           /\ Len(fetchall(ret.rows)) = 1
           /\ Len(fetchone(ret.rows)) = 1
           /\ ReadValue(ret) = lastOk[k]
C1_Witness ==
  /\ IsRead(ret)
  /\ IsId(lastOk[ret.conn])
  /\ ReadValue(ret) = lastOk[ret.conn]

\* C2: an INSERT the backend answers with a status other than 200/201, or
\* whose HTTP call raises, returns an empty result (fetchone is None,
\* fetchall is empty) and leaves every last_insert_id as it was.
C2_FailedInsertKeepsLastId ==
  [][FailedInsert(ret') =>
       /\ fetchall(ret'.rows) = <<>>
       /\ fetchone(ret'.rows) = None
       /\ last_insert_id' = last_insert_id]_vars
C2_Witness ==
  /\ FailedInsert(ret)
  /\ ret.status = 400
  /\ IsId(last_insert_id[ret.conn])

\* C3: last_insert_id changes only in an execute of an INSERT that the
\* backend accepted, and only on the Connection that executed it: SELECT,
\* SELECT COUNT(*), UPDATE, DELETE, ignored DDL, the last-insert-id statement
\* and unclassified statements leave it unchanged whatever the backend answers.
C3_OnlyAcceptedInsertWrites ==
  [][\A k \in Conns :
       last_insert_id'[k] # last_insert_id[k] =>
         /\ ret'.kind = "insert"
         /\ ret'.status \in {200, 201}
         /\ ret'.conn = k]_vars
C3_Witness ==
  /\ ret.kind = "select"
  /\ ret.status = 200
  /\ ret.rows # <<>>
  /\ IsId(last_insert_id[ret.conn])

\* C4: last_insert_id is per Connection: a Connection on which no INSERT has
\* landed answers the last-insert-id statement with None, and a read on a
\* Connection returns None or an id generated by an INSERT executed on that
\* same Connection.
C4_PerConnection ==
  IsRead(ret) =>
    /\ lastOk[ret.conn] = NoInsert => ReadValue(ret) = None
    /\ \/ ReadValue(ret) = None
       \/ /\ IsId(ReadValue(ret))
          /\ origin[ReadValue(ret).n].on = ret.conn
C4_Witness ==
  /\ IsRead(ret)
  /\ ReadValue(ret) = None
  /\ lastOk[ret.conn] = NoInsert
  /\ \E k \in Conns : k # ret.conn /\ IsId(last_insert_id[k])

\* C5: when a caller's INSERT lands on a Connection and the next call is the
\* other caller's last-insert-id read on that Connection, the read returns
\* the id of the first caller's INSERT: the Connection neither prevents nor
\* detects that its callers differ.
C5_SharedConnectionLeaks ==
  [][(/\ LandedInsert(ret)
      /\ IsRead(ret')
      /\ ret'.conn = ret.conn
      /\ ret'.caller # ret.caller)
       => ReadValue(ret') = RowGet(fetchone(ret.rows), kId)]_vars
\* both callers inserted on the Connection, and the reader gets the other's id
C5_Witness ==
  /\ IsRead(ret)
  /\ IsId(ReadValue(ret))
  /\ origin[ReadValue(ret).n].by # ret.caller
  /\ origin[ReadValue(ret).n].on = ret.conn
  /\ \E j \in 1..Len(origin) :
       /\ j < ReadValue(ret).n
       /\ origin[j].by = ret.caller
       /\ origin[j].on = ret.conn

(***************************************************************************)
(* Unrecognized conjuncts                                                  *)
(***************************************************************************)
\* a conjunct none of the shape matchers accepts
Unrecognized(c) == c.shape \in {"ne", "nelit"} \/ ~LettersOnly(c.col)
Recognized(c) == ~Unrecognized(c)

\* C11: when conjuncts match no shape, the caller can tell from the outcome
\* that they were there: compiling a clause that has unrecognized conjuncts
\* gives another outcome than compiling it with those conjuncts removed.  The
\* clauses compared are those whose unrecognized conjuncts hold no
\* placeholder, so that both are compiled with the same parameters.
C11_UnrecognizedSurfaced ==
  (/\ w_out.done
   /\ \E i \in 1..Len(w_conjs) : Unrecognized(w_conjs[i])
   /\ \A i \in 1..Len(w_conjs) : Unrecognized(w_conjs[i]) => NQ(w_conjs[i]) = 0)
    => LET without == _parse_where_clause(WhereText(SelectSeq(w_conjs, Recognized)), w_params)
       IN <<w_out.filters, w_out.remaining>> # <<without.filters, without.remaining>>

(***************************************************************************)
(* One call of execute                                                     *)
(***************************************************************************)
XSql == ExecText[x_sql].sql
XParams == ExecText[x_sql].params
\* the statement has a WHERE clause in which OR occurs (inside a parenthesised
\* group or not)
WhereHasOr(sql) ==
  \E w \in 1..Len(sql) :
    IsKw(sql[w], tWHERE) /\ \E i \in (w + 1)..Len(sql) : IsKw(sql[i], tOR)

\* C12: a statement whose WHERE clause contains OR or a parenthesised group
\* is rejected with a parse error, and no request is sent for it.
C12_OrRejected ==
  (x_out.done /\ WhereHasOr(XSql)) => (x_out.error = "ParseError" /\ x_out.http = NoHttp)

\* the statement text begins, in any letter case, with one of the ignored
\* DDL prefixes
IgnoredPrefixes ==
  {JoinSpace(<<tCREATE, tTABLE>>), JoinSpace(<<tCREATE, tINDEX>>),
   JoinSpace(<<tALTER, tTABLE>>), JoinSpace(<<tDROP, tTABLE>>), tPRAGMA}
BeginsIgnored(sql) == \E pre \in IgnoredPrefixes : HasPrefix(JoinSpace(sql), pre)

\* C13: a statement that begins with CREATE TABLE, CREATE INDEX, ALTER TABLE,
\* DROP TABLE or PRAGMA, in any letter case, is accepted without error,
\* returns an empty result, sends no HTTP request and leaves the Connection
\* as it was; it takes the ignored branch whatever else its text contains.
C13_IgnoredDDL ==
  (x_out.done /\ BeginsIgnored(XSql)) =>
    /\ x_out.kind = "ddl"
    /\ x_out.error = "none"
    /\ fetchall(x_out.rows) = <<>>
    /\ fetchone(x_out.rows) = None
    /\ x_out.http = NoHttp
    /\ x_out.lid = x_lid
\* an ALTER TABLE whose text names last_insert_rowid, executed on a
\* Connection that holds an id
C13_Witness ==
  /\ x_out.done
  /\ x_sql = "d_alter"
  /\ \E i \in 1..Len(XSql) : Contains(strupper(XSql[i]), tLASTROWID)
  /\ x_lid = PyInt(7)
  /\ x_out.rows = <<>>

\* C14: a statement outside the accepted set that is not ignored DDL (INSERT
\* OR REPLACE INTO, REPLACE INTO, BEGIN) is reported to the caller as an
\* unsupported-statement error.
C14_UnsupportedReported ==
  (x_out.done /\ x_out.kind = "other") => x_out.error = "UnsupportedStatementError"

\* the HTTP call raised (status 0) or was answered with a status that is not
\* a success
CallFailed(out) == out.kind \in HttpKinds /\ out.status \notin 200..299

\* C15: for every statement kind, when the HTTP call fails with a network
\* error or is answered with a non-success status, execute returns without
\* raising and leaves the Connection as it was; SELECT, INSERT, UPDATE and
\* DELETE return an empty result (SELECT COUNT(*) its one row, counting 0).
C15_TransportFailureIsEmptyResult ==
  (x_out.done /\ CallFailed(x_out)) =>
    /\ x_out.error = "none"
    /\ x_out.lid = x_lid
    /\ x_out.kind \in {"select", "insert", "update", "delete"} =>
         (fetchall(x_out.rows) = <<>> /\ fetchone(x_out.rows) = None)
    /\ x_out.kind = "count" => x_out.rows = <<<<<<kCount, PyInt(0)>>>>>>
\* an INSERT whose HTTP call raised, on a Connection that holds an id
C15_Witness ==
  /\ x_out.done
  /\ x_out.kind = "insert"
  /\ x_out.status = 0
  /\ x_lid = PyInt(7)
  /\ x_out.lid = PyInt(7)

\* the tokens that follow the first WHERE of a statement, in either case
AfterWhere(sql) ==
  IF \E i \in 1..Len(sql) : IsKw(sql[i], tWHERE)
  THEN SubSeq(sql, 1 + (CHOOSE i \in 1..Len(sql) :
                          IsKw(sql[i], tWHERE) /\ \A h \in 1..(i - 1) : ~IsKw(sql[h], tWHERE)),
              Len(sql))
  ELSE <<>>
\* compiled filters as the query parameters of a request, in their order
AsQuery(filters) == [i \in 1..Len(filters) |-> <<filters[i][1], PyStr(filters[i][2])>>]
\* the number of rows the backend answered with, 0 when the call failed
RowsAnswered(resp) == IF resp.status = 200 THEN Len(resp.body) ELSE 0

\* C16: SELECT COUNT(*) FROM t [WHERE w] issues one GET on t that selects
\* only the id column and carries exactly the filters compiled from w; it
\* returns one row with the one column COUNT(*), whose value is the number of
\* rows in the backend's response (0 when it is empty or the request failed).
C16_CountIsFilteredIdFetch ==
  (x_out.done /\ x_out.kind = "count") =>
    /\ x_out.http.method = "GET"
    /\ x_out.http.table = PyStr(tblT)
    /\ x_out.http.params =
         <<<<kSelect, PyStr(kId)>>>> \o
           AsQuery(_parse_where_clause(AfterWhere(XSql), XParams).filters)
    /\ x_out.rows = <<<<<<kCount, PyInt(RowsAnswered(x_resp))>>>>>>
\* a lower-case count with two conjuncts that the backend answers with one row
C16_Witness ==
  /\ x_out.done
  /\ x_sql = "c_lower"
  /\ x_out.kind = "count"
  /\ Len(x_out.http.params) = 3
  /\ x_out.http.params[2] = <<colB, PyStr(txt(<<"e", "q">>, ValueText(vStage)))>>
  /\ x_resp.status = 200
  /\ x_out.rows = <<<<<<kCount, PyInt(1)>>>>>>

\* the column list of an INSERT: the tokens between its first pair of
\* parentheses, without the commas
ListedColumns(sql) ==
  LET lp == CHOOSE i \in 1..Len(sql) : sql[i] = tLP /\ \A h \in 1..(i - 1) : sql[h] # tLP
      rp == CHOOSE i \in 1..Len(sql) : sql[i] = tRP /\ \A h \in 1..(i - 1) : sql[h] # tRP
  IN SelectSeq(SubSeq(sql, lp + 1, rp - 1), LAMBDA t : t # tCOMMA)

\* C17: INSERT INTO t (c1, ..., cn) VALUES (...) executed with the parameters
\* [p1..pn] sends one POST to table t whose body is exactly the record
\* {c1: p1, ..., cn: pn}: the i-th listed column is paired with the i-th
\* parameter.
C17_InsertBodyIsPositionalZip ==
  (x_out.done /\ x_out.kind = "insert" /\ Len(ListedColumns(XSql)) = Len(XParams)) =>
    /\ x_out.http.method = "POST"
    /\ x_out.http.table = PyStr(tblT)
    /\ x_out.http.json =
         [i \in 1..Len(XParams) |-> <<ListedColumns(XSql)[i], XParams[i]>>]
\* three columns with three parameters of different types, None among them
C17_Witness ==
  /\ x_out.done
  /\ x_sql = "i_three"
  /\ x_out.kind = "insert"
  /\ x_out.http.json = <<<<colFull, vJuan>>, <<colPhone, None>>, <<colB, PyInt(5)>>>>
  /\ x_resp.status = 201

\* position of the first token of sql at or after from that is the keyword kw
\* in either case, Len(sql) + 1 when there is none
KwAt(sql, from, kw) ==
  IF \E i \in from..Len(sql) : IsKw(sql[i], kw)
  THEN CHOOSE i \in from..Len(sql) :
         IsKw(sql[i], kw) /\ \A h \in from..(i - 1) : ~IsKw(sql[h], kw)
  ELSE Len(sql) + 1
HasOrderBy(sql) == KwAt(sql, 1, tORDER) <= Len(sql)
\* the WHERE span of a SELECT: from WHERE to ORDER BY, LIMIT or the end
SpanOfWhere(sql) ==
  LET w == KwAt(sql, 1, tWHERE)
      o == KwAt(sql, w + 1, tORDER)
      l == KwAt(sql, w + 1, tLIMIT)
  IN SubSeq(sql, w + 1, (IF o < l THEN o ELSE l) - 1)
\* the ORDER BY span of a SELECT: from ORDER BY to LIMIT or the end
SpanOfOrderBy(sql) ==
  LET o == KwAt(sql, 1, tORDER)
  IN SubSeq(sql, o + 2, KwAt(sql, o + 2, tLIMIT) - 1)
\* a column reference without its table-alias prefix
WithoutAlias(col) ==
  IF \E i \in 1..Len(col) : col[i] = "."
  THEN SubSeq(col, 1 + (CHOOSE i \in 1..Len(col) :
                          col[i] = "." /\ \A h \in 1..(i - 1) : col[h] # "."),
              Len(col))
  ELSE col
\* one backend order token per ORDER BY column, in the SQL's order
RECURSIVE OrderTokens(_)
OrderTokens(span) ==
  IF span = <<>> THEN <<>>
  ELSE IF span[1] = tCOMMA THEN OrderTokens(Tail(span))
  ELSE LET desc == Len(span) >= 2 /\ IsKw(span[2], tDESC)
           asc == Len(span) >= 2 /\ IsKw(span[2], tASC)
       IN <<WithoutAlias(span[1]) \o
              (IF desc THEN <<".", "d", "e", "s", "c">> ELSE <<".", "a", "s", "c">>)>>
          \o OrderTokens(SubSeq(span, IF desc \/ asc THEN 3 ELSE 2, Len(span)))
\* the query parameters of a request that are filters
FiltersSent(params) ==
  SelectSeq(params, LAMBDA kv : kv[1] \notin {kSelect, kOrder, kLimit})

\* C18: for SELECT * FROM t [WHERE w] ORDER BY o, the WHERE span ends at
\* ORDER BY (or LIMIT, or the end), and the one GET carries the filters
\* compiled from w, select=*, and an order parameter that lists one token per
\* ORDER BY column in the SQL's order: col.desc for DESC, col.asc for ASC or
\* no direction, the table-alias prefix of col removed.
C18_SelectOrderBy ==
  (x_out.done /\ x_out.kind = "select" /\ HasOrderBy(XSql) /\ ~WhereHasOr(XSql)) =>
    /\ x_out.http.method = "GET"
    /\ DictGet(x_out.http.params, kSelect) = PyStr(sSTAR)
    /\ FiltersSent(x_out.http.params) =
         AsQuery(_parse_where_clause(SpanOfWhere(XSql), XParams).filters)
    /\ DictHas(x_out.http.params, kOrder)
    /\ DictGet(x_out.http.params, kOrder) = PyStr(JoinComma(OrderTokens(SpanOfOrderBy(XSql))))

\* C19: a ResultSet is immutable once built: fetchone returns the first row
\* (none when there are no rows) on every call, fetchall and iteration return
\* all rows in response order on every call, and nothing the caller does to
\* the list fetchall returned alters what fetchone, fetchall, len or
\* iteration return afterwards.
C19_ResultImmutable ==
  /\ r_obs.op = "fetchone" =>
       r_obs.val = (IF r_built = <<>> THEN <<>> ELSE <<r_built[1]>>)
  /\ r_obs.op \in {"fetchall", "iter"} => r_obs.val = r_built
  /\ r_obs.op = "len" => r_obs.val = Len(r_built)

\* C20: for every Row r and every column name k present in r (keys, values,
\* items, update and get among them), r.k returns the value r["k"] returns;
\* for every name absent from r, r.k raises an error.
C20_AttributeIsItem ==
  (a_out.done /\ a_out.via = "attr") =>
    IF DictHas(a_row, a_name)
    THEN a_out.kind = "value" /\ a_out.val = DictGet(a_row, a_name)
    ELSE a_out.kind = "AttributeError"

\* C21: the same SELECT (same SQL text, same parameters) executed again with
\* no write in between and the backend answering the same returns the same
\* rows: the request of a SELECT and its result do not depend on the
\* Connection's last insert id, which is all a Connection keeps of earlier
\* calls; the SELECT leaves that id and the caller's parameters as they were.
C21_SelectRepeatable ==
  (x_out.done /\ x_out.kind = "select") =>
    /\ x_out.args = XParams
    /\ x_out.lid = x_lid
    /\ \A lid \in ExecLids :
         /\ execute(XSql, x_out.args, lid, x_resp).http = x_out.http
         /\ execute(XSql, x_out.args, lid, x_resp).rows = x_out.rows
\* a SELECT with a parameter, answered with a row, on a Connection that holds
\* an id from an earlier INSERT
C21_Witness ==
  /\ x_out.done
  /\ x_sql = "s_multi"
  /\ x_out.kind = "select"
  /\ x_lid = PyInt(7)
  /\ x_resp.status = 200
  /\ x_out.rows = <<rowNamed>>

\* the listing at position i of the input passes every rule of the filter
Passes(i) ==
  LET l == f_listings[i]
  IN /\ \A h \in 1..(i - 1) : f_listings[h].url # l.url
     /\ ~(f_exclude_sold /\ l.is_sold)
     /\ (l.year = None \/ l.year.n >= f_min_year)
     /\ (l.days_active = None \/ l.days_active.n >= min_days_active)
\* a listing without its flag
Unflagged(l) == [l EXCEPT !.flag = Absent]

\* C22: filter_listings returns, in input order, exactly the listings that
\* are the first occurrence of their URL, are not sold when exclude_sold is
\* true, have a year that is none or >= min_year and a days_active that is
\* none or >= min_days_active; no two listings of the output have the same
\* URL, and with exclude_sold false removed_sold is 0.
C22_FilterKeepsExactlyPassing ==
  f_out.done =>
    /\ [j \in 1..Len(f_out.filtered) |-> f_out.filtered[j].at] =
         SelectSeq([i \in 1..Len(f_listings) |-> i], Passes)
    /\ \A j \in 1..Len(f_out.filtered) :
         Unflagged(f_out.filtered[j].listing) = f_listings[f_out.filtered[j].at]
    /\ \A j, h \in 1..Len(f_out.filtered) :
         j # h => f_out.filtered[j].listing.url # f_out.filtered[h].listing.url
    /\ ~f_exclude_sold => f_out.stats.removed_sold = 0
\* two listings are kept in input order, one with a missing year, while a
\* sold listing is kept because exclude_sold is false
C22_Witness ==
  /\ f_out.done
  /\ ~f_exclude_sold
  /\ Len(f_listings) = 2
  /\ Len(f_out.filtered) = 2
  /\ f_listings[1].is_sold
  /\ f_listings[2].year = None
  /\ f_out.filtered[1].at = 1
  /\ f_out.filtered[2].at = 2

sNO_YEAR == <<"n", "o", "_", "y", "e", "a", "r">>
sNO_DATE == <<"n", "o", "_", "d", "a", "t", "e">>
\* the listing carries a _flag that contains the marker
Flagged(l, marker) == l.flag # Absent /\ Contains(l.flag.s, marker)
\* the positions of the input that the output holds
KeptAt == {f_out.filtered[j].at : j \in 1..Len(f_out.filtered)}
\* the listing at position i is removed by a rule that is not about missing
\* data: a duplicate, sold, a known year that is too old, a known age that is
\* too new
RemovedByRule(i) ==
  LET l == f_listings[i]
  IN \/ \E h \in 1..(i - 1) : f_listings[h].url = l.url
     \/ f_exclude_sold /\ l.is_sold
     \/ l.year # None /\ l.year.n < f_min_year
     \/ l.days_active # None /\ l.days_active.n < min_days_active

\* C23: a listing with missing data is flagged, not dropped: every output
\* listing whose year is none has a _flag containing "no_year", every output
\* listing whose days_active is none has a _flag containing "no_date" (both
\* when both are missing), and no listing is removed for its year or its
\* days_active being none.
C23_MissingDataFlaggedNotDropped ==
  f_out.done =>
    /\ \A j \in 1..Len(f_out.filtered) :
         LET l == f_out.filtered[j].listing
         IN /\ l.year = None => Flagged(l, sNO_YEAR)
            /\ l.days_active = None => Flagged(l, sNO_DATE)
    /\ \A i \in 1..Len(f_listings) :
         (f_listings[i].year = None \/ f_listings[i].days_active = None) =>
           (i \in KeptAt \/ RemovedByRule(i))
\* a listing without year and without date is kept and carries both markers
C23_Witness ==
  /\ f_out.done
  /\ Len(f_out.filtered) >= 1
  /\ f_out.filtered[1].listing.year = None
  /\ f_out.filtered[1].listing.days_active = None
  /\ f_out.filtered[1].listing.flag = PyStr(sNoYear \o sNoDate)

\* the input listings that the call left flagged with the marker
FlaggedAt(marker) ==
  {i \in 1..Len(f_out.listings) : Flagged(f_out.listings[i], marker)}

\* C24: the counters of filter_listings account for every input listing
\* exactly once: total_input = total_output + removed_sold +
\* removed_too_new_listing + removed_year_too_old + removed_duplicate, with
\* total_output the length of the returned list; removed_no_year and
\* removed_no_date count the listings flagged and are not part of the sum.
C24_CountersAccountForInput ==
  f_out.done =>
    /\ f_out.stats.total_input = Len(f_listings)
    /\ f_out.stats.total_output = Len(f_out.filtered)
    /\ f_out.stats.total_input =
         f_out.stats.total_output + f_out.stats.removed_sold
           + f_out.stats.removed_too_new_listing + f_out.stats.removed_year_too_old
           + f_out.stats.removed_duplicate
    /\ f_out.stats.removed_no_year = Cardinality(FlaggedAt(sNO_YEAR))
    /\ f_out.stats.removed_no_date = Cardinality(FlaggedAt(sNO_DATE))
\* one listing kept with a flag and one removed as a duplicate: the flagged
\* one is counted in removed_no_year and in total_output
C24_Witness ==
  /\ f_out.done
  /\ f_out.stats.total_input = 2
  /\ f_out.stats.total_output = 1
  /\ f_out.stats.removed_duplicate = 1
  /\ f_out.stats.removed_no_year = 1

\* C25: sort_listings(L, "days_active") returns a permutation of L in which
\* the listings with a known days_active are in non-increasing order of it
\* and every listing whose days_active is none comes after all listings with
\* a known value.
C25_SortedUnknownsLast ==
  s_out.done =>
    LET n == Len(s_listings)
        at(j) == s_listings[s_out.order[j]]
    IN /\ Len(s_out.order) = n
       /\ Range(s_out.order) = 1..n
       /\ \A j, h \in 1..n :
            (j < h /\ at(j).days_active # None /\ at(h).days_active # None) =>
              at(j).days_active.n >= at(h).days_active.n
       /\ \A j, h \in 1..n :
            (at(j).days_active = None /\ at(h).days_active # None) => h < j

\* the HTTP method of each kind of statement
MethodOf(kind) ==
  CASE kind \in {"select", "count"} -> "GET"
    [] kind = "insert" -> "POST"
    [] kind = "update" -> "PATCH"
    [] kind = "delete" -> "DELETE"

\* C26: each execute call issues at most one HTTP request and never retries
\* a failed one: one GET for SELECT and SELECT COUNT(*), one POST for INSERT,
\* one PATCH for UPDATE, one DELETE for DELETE, each to the endpoint of the
\* statement's table; no request for ignored DDL, the last-insert-id
\* statement and unclassified statements.
C26_AtMostOneRequest ==
  x_out.done =>
    /\ Len(x_out.sent) <= 1
    /\ x_out.kind \in HttpKinds =>
         /\ Len(x_out.sent) = 1
         /\ x_out.sent[1].method = MethodOf(x_out.kind)
         /\ x_out.sent[1].table = PyStr(tblT)
    /\ x_out.kind \in {"ddl", "lastid", "other"} => x_out.sent = <<>>
\* a DELETE whose request failed: the one DELETE request and no other
C26_Witness ==
  /\ x_out.done
  /\ x_sql = "x_where"
  /\ x_out.kind = "delete"
  /\ x_resp.status = 500
  /\ Len(x_out.sent) = 1
  /\ x_out.sent[1].method = "DELETE"

\* the statement ends in LIMIT and a token
EndsInLimit(sql) == Len(sql) >= 2 /\ IsKw(sql[Len(sql) - 1], tLIMIT)

\* C27: for every SELECT ending in LIMIT n, n a non-negative integer literal
\* (0 included), the GET carries the parameter limit = n; for a SELECT
\* without LIMIT the GET carries no limit parameter.
C27_LimitCarried ==
  (x_out.done /\ x_out.kind = "select") =>
    IF EndsInLimit(XSql)
    THEN /\ DictHas(x_out.http.params, kLimit)
         /\ \E n \in 0..9 :
              /\ DigitsOf(n) = XSql[Len(XSql)]
              /\ DictGet(x_out.http.params, kLimit) = PyInt(n)
    ELSE ~DictHas(x_out.http.params, kLimit)

\* C28: every recognized conjunct of a WHERE clause contributes its own
\* filter term to the compiled output: when two conjuncts name the same
\* column (c >= ? AND c <= ?) both terms are present, so there are as many
\* filter terms as recognized conjuncts.  The clauses are those made of the
\* documented one-term shapes only.
C28_OneTermPerConjunct ==
  (/\ w_out.done
   /\ \A i \in 1..Len(w_conjs) :
        w_conjs[i].shape \in ListedShapes /\ LettersOnly(w_conjs[i].col))
    => Len(w_out.filters) = Len(w_conjs)

\* the WHERE clause of the statement has a conjunct other than 1=1
HasCondition(sql) == AfterWhere(sql) \notin {<<>>, <<tONE, tEQ, tONE>>}

\* C29: every DELETE or PATCH request issued for a statement whose WHERE
\* clause has at least one conjunct other than 1=1 carries at least one
\* filter parameter: conjuncts that are dropped or not recognized never widen
\* a write to every row of the table.
C29_WriteKeepsAFilter ==
  (x_out.done /\ x_out.kind \in {"update", "delete"} /\ HasCondition(XSql)) =>
    /\ Len(x_out.sent) = 1
    /\ x_out.sent[1].params # <<>>

\* C30: the single value of the row of SELECT last_insert_rowid() and of the
\* row of SELECT COUNT(*) can be read by the positional index 0:
\* execute(...).fetchone()[0] returns that value.
C30_SingleValueByPosition ==
  (a_out.done /\ a_out.via = "index" /\ a_row \in SingleValueRows) =>
    /\ a_out.kind = "value"
    /\ a_out.val = a_row[1][2]

====
